---- MODULE Spec2Model ----
(***************************************************************************)
(* Tennis analysis: the shot event detector (BallTracker                   *)
(* .get_ball_shot_frames) and the statistics aggregation of main().        *)
(*                                                                         *)
(* The machine follows main() from the call of get_ball_shot_frames        *)
(* (main.py:60) to the forward-filled statistics table (main.py:135).      *)
(* The ball boxes are an input chosen in Init; the two lists returned by   *)
(* convert_bounding_boxes_to_mini_court_coordinates (main.py:63) are the    *)
(* aggregation's inputs and are drawn from bounded sets when they are      *)
(* received.                                                               *)
(*                                                                         *)
(* Further specifications over the same variables follow the other         *)
(* components on their own: the player selection (SpecSelection), the ball *)
(* interpolation (SpecInterpolation), the coordinate conversion            *)
(* (SpecConversion), the mini court and its methods (SpecMiniCourt) and    *)
(* main() from the frames read to the conversion (SpecPipeline).           *)
(*                                                                         *)
(* Numbers.  Frames are numbered from 0 as in the code; a list x of the    *)
(* code is a sequence here and x[f] of the code is x[f+1].  Box            *)
(* coordinates and mini-court positions are integers.  Python floats are   *)
(* modelled in fixed point, rounded down after every operation of the      *)
(* code: pixel distances in tenths of a pixel, meters in millimeters,      *)
(* speeds in thousandths of a km/h.  Signs of the smoothed differences are *)
(* computed exactly, by cross-multiplication.                              *)
(***************************************************************************)
EXTENDS Integers, Sequences, FiniteSets, TLC

VARIABLES
    pc,                            \* position in main()
    ball_positions,                \* ball_detections after interpolation: one box per frame
    ball_shot_frames,              \* main.py:60
    player_ids,                    \* keys of the per-frame player dicts, in dict order
    player_mini_court_detections,  \* main.py:63, per frame: player id -> <<x, y>>
    ball_mini_court_detections,    \* main.py:63, per frame: <<x, y>> (the value under key 1)
    player_stats_data,             \* main.py:67, the list of snapshots
    ball_shot_ind,                 \* main.py:88, loop index
    player_shot_ball,              \* main.py:106, local of the loop body
    opponent_player_id,            \* main.py:110
    speed_of_ball_shot,            \* main.py:102
    speed_of_opponent,             \* main.py:118
    player_stats_data_df,          \* main.py:132-135, the per-frame table
    error,                         \* the exception the run ended with, or "none"
    all_player_detections,         \* player_tracker.py:76, per frame: the (track id, box) items in dict order
    court_keypoints,               \* player_tracker.py:76, the 28 keypoint coordinates
    chosen_player,                 \* player_tracker.py:93
    filtered_player_detections,    \* player_tracker.py:94-98
    detected_ball_positions,       \* ball_tracker.py:68, per frame: a box, or <<>> when the ball was not detected
    interpolated_ball_positions,   \* ball_tracker.py:105
    player_boxes,                  \* mini_court.py:414, per frame: the (player id, box) items in dict order
    ball_boxes,                    \* mini_court.py:414, per frame: the box under key 1
    output_player_boxes,           \* mini_court.py:432
    output_ball_boxes,             \* mini_court.py:433
    mini_court,                    \* main.py:57, the attributes of the MiniCourt object
    mapper_call,                   \* the last call of a method that returns a value, with its result
    max_player_height_in_pixels,   \* mini_court.py:453, local of the conversion
    video_frames,                  \* main.py:20, per frame: its shape <<height, width>>
    stages,                        \* the calls main() has made, in order
    stdout                         \* the lines main() has printed

vars == <<pc, ball_positions, ball_shot_frames, player_ids,
          player_mini_court_detections, ball_mini_court_detections,
          player_stats_data, ball_shot_ind, player_shot_ball, opponent_player_id,
          speed_of_ball_shot, speed_of_opponent, player_stats_data_df, error,
          all_player_detections, court_keypoints, chosen_player, filtered_player_detections,
          detected_ball_positions, interpolated_ball_positions,
          player_boxes, ball_boxes, output_player_boxes, output_ball_boxes,
          mini_court, mapper_call, max_player_height_in_pixels,
          video_frames, stages, stdout>>

\* the variables of main() from line 60 on
main_vars == <<ball_positions, ball_shot_frames, player_ids,
               player_mini_court_detections, ball_mini_court_detections,
               player_stats_data, ball_shot_ind, player_shot_ball, opponent_player_id,
               speed_of_ball_shot, speed_of_opponent, player_stats_data_df>>
\* the variables of PlayerTracker.choose_and_filter_players
selection_vars == <<all_player_detections, court_keypoints, chosen_player,
                    filtered_player_detections>>
\* the variables of BallTracker.interpolate_ball_positions
interpolation_vars == <<detected_ball_positions, interpolated_ball_positions>>
\* the variables of MiniCourt.convert_bounding_boxes_to_mini_court_coordinates
conversion_vars == <<player_boxes, ball_boxes, output_player_boxes, output_ball_boxes,
                     mini_court, mapper_call, max_player_height_in_pixels>>

\* the variables of main() up to line 57 and from line 143 on
pipeline_vars == <<video_frames, stages, stdout>>

\* a component that a run does not enter keeps its variables empty
SelectionIdle ==
    /\ all_player_detections = <<>> /\ court_keypoints = <<>>
    /\ chosen_player = <<>> /\ filtered_player_detections = <<>>
InterpolationIdle == detected_ball_positions = <<>> /\ interpolated_ball_positions = <<>>
ConversionIdle ==
    /\ player_boxes = <<>> /\ ball_boxes = <<>>
    /\ output_player_boxes = <<>> /\ output_ball_boxes = <<>>
    /\ mini_court = <<>> /\ mapper_call = [method |-> "none"] /\ max_player_height_in_pixels = 0
PipelineIdle == video_frames = <<>> /\ stages = <<>> /\ stdout = <<>>
MainIdle ==
    /\ ball_positions = <<>> /\ ball_shot_frames = <<>> /\ player_ids = <<>>
    /\ player_mini_court_detections = <<>> /\ ball_mini_court_detections = <<>>
    /\ player_stats_data = <<>> /\ ball_shot_ind = 0 /\ player_shot_ball = 0
    /\ opponent_player_id = 0 /\ speed_of_ball_shot = 0 /\ speed_of_opponent = 0
    /\ player_stats_data_df = <<>>

----------------------------------------------------------------------------
(* Bounds of the model *)

\* the longest ball sequence, in frames
MaxFrames == 91
\* the most direction reversals of the ball in one input sequence
MaxTurns == 3
\* the most single-frame stalls of the ball in one input sequence
MaxStalls == 1

----------------------------------------------------------------------------
(* Program constants *)

\* ball_tracker.py:141
minimum_change_frames_for_hit == 25
\* ball_tracker.py:139, rolling(window=5, min_periods=1, center=False)
RollingWindow == 5
\* main.py:91, 24 fps
FrameRate == 24

\* the margin without the factor 1.2
LookAhead_unscaled == minimum_change_frames_for_hit

\* int(minimum_change_frames_for_hit*1.2), ball_tracker.py:142 and 148
LookAhead == (minimum_change_frames_for_hit * 12) \div 10

----------------------------------------------------------------------------
(* Small helpers *)

Sign(n) == IF n > 0 THEN 1 ELSE IF n < 0 THEN -1 ELSE 0

Abs(n) == IF n < 0 THEN -n ELSE n

Max2(a, b) == IF a > b THEN a ELSE b

----------------------------------------------------------------------------
(* Input ball sequences: a ball that moves one pixel per frame up or down, *)
(* reverses direction after some frames and stands still in some frames.   *)

\* frames after which the ball may reverse its vertical direction
TurnCands == {1, 8, 32, 33, 56, 58}
\* frames in which the ball may stand still
StallCands == {9, 34, 57}
\* lengths of the input sequences
SeqLens == {1, 31, 32, 89, MaxFrames}

\* vertical step of the ball from frame f-1 to frame f
BallStep(dir0, turns, stalls, f) ==
    IF f \in stalls THEN 0
    ELSE IF Cardinality({t \in turns : t < f}) % 2 = 0 THEN dir0 ELSE -dir0

\* half the height of the ball box at frame f (the box size varies)
BallHalfHeight(f) == 4 + (f % 3)

\* the box [x1, y1, x2, y2] of a ball whose vertical centre is y at frame f
BallBox(f, y) == <<50 + f, y - BallHalfHeight(f), 60 + f, y + BallHalfHeight(f)>>

\* vertical centre of the ball in the box BallBox made for frame f
BallBoxCentre(f, box) == box[2] + BallHalfHeight(f)

RECURSIVE BallBoxesBetween(_, _, _, _, _, _)
\* the boxes of frames lo..hi of a ball whose vertical centre is y at frame lo-1
BallBoxesBetween(dir0, turns, stalls, y, lo, hi) ==
    IF lo > hi THEN <<>>
    ELSE IF lo = hi THEN <<BallBox(lo, y + BallStep(dir0, turns, stalls, lo))>>
    ELSE LET m == (lo + hi) \div 2
             left == BallBoxesBetween(dir0, turns, stalls, y, lo, m)
         IN  left \o BallBoxesBetween(dir0, turns, stalls,
                                      BallBoxCentre(m, left[Len(left)]), m + 1, hi)

\* the boxes of frames 0..len-1; the ball starts at height 300
BallBoxes(dir0, turns, stalls, len) ==
    <<BallBox(0, 300)>> \o BallBoxesBetween(dir0, turns, stalls, 300, 1, len - 1)

\* the sets of frames after which the ball reverses, and in which it stands still
TurnSets == {T \in SUBSET TurnCands : Cardinality(T) <= MaxTurns}
StallSets == {S \in SUBSET StallCands : Cardinality(S) <= MaxStalls}

----------------------------------------------------------------------------
(* BallTracker.get_ball_shot_frames, ball_tracker.py:132-163 *)

\* twice df['mid_y'] at frame t: (y1 + y2)/2 kept an integer
mid_y(positions, t) == positions[t + 1][2] + positions[t + 1][4]

\* number of samples in the trailing window ending at frame t (min_periods=1)
rolling_count(t) == IF t + 1 < RollingWindow THEN t + 1 ELSE RollingWindow

RECURSIVE window_sum(_, _, _)
\* mid_y summed over frames lo..hi
window_sum(positions, lo, hi) ==
    IF lo > hi THEN 0 ELSE mid_y(positions, hi) + window_sum(positions, lo, hi - 1)

\* sum of mid_y over the trailing window ending at frame t; the rolling mean
\* at t is rolling_sum/rolling_count
rolling_sum(positions, t) == window_sum(positions, Max2(0, t - RollingWindow + 1), t)

\* sign of df['delta_y'] at frame t >= 1: mid_y_rolling_mean.diff(); the two
\* means are compared by cross-multiplication.  delta_y at frame 0 is NaN.
delta_y_sign(positions, t) ==
    Sign(rolling_sum(positions, t) * rolling_count(t - 1)
         - rolling_sum(positions, t - 1) * rolling_count(t))

RECURSIVE delta_y_between(_, _, _)
\* the signs of delta_y at frames lo..hi, as a sequence
delta_y_between(positions, lo, hi) ==
    IF lo > hi THEN <<>>
    ELSE IF lo = hi THEN <<delta_y_sign(positions, lo)>>
    ELSE LET m == (lo + hi) \div 2
         IN  delta_y_between(positions, lo, m) \o delta_y_between(positions, m + 1, hi)

\* the column delta_y as signs, for frames 1..len-1
delta_y(positions) == delta_y_between(positions, 1, Len(positions) - 1)

\* ball_tracker.py:143
negative_position_change(d, i) == d[i] > 0 /\ d[i + 1] < 0
\* ball_tracker.py:144
positive_position_change(d, i) == d[i] < 0 /\ d[i + 1] > 0

\* ball_tracker.py:149-155, one pass of the inner loop: whether change_count grows
change_counted(d, i, change_frame) ==
    LET negative_following == d[i] > 0 /\ d[change_frame] < 0
        positive_following == d[i] < 0 /\ d[change_frame] > 0
    IN  IF negative_position_change(d, i) /\ negative_following THEN TRUE
        ELSE IF positive_position_change(d, i) /\ positive_following THEN TRUE
        ELSE FALSE

\* ball_tracker.py:147-155: change_count after the inner loop over
\* range(i+1, i+int(minimum_change_frames_for_hit*1.2)+1)
change_count(d, i) ==
    Cardinality({change_frame \in (i + 1)..(i + LookAhead) : change_counted(d, i, change_frame)})

\* ball_tracker.py:142: range(1, len(df) - int(minimum_change_frames_for_hit*1.2))
scanned_frames(len) == 1..(len - LookAhead - 1)

\* ball_hit with the comparison change_count > minimum_change_frames_for_hit:
\* a reversal followed by exactly 25 frames of the new direction is dropped
ball_hit_above_minimum(d, i) ==
    /\ negative_position_change(d, i) \/ positive_position_change(d, i)
    /\ change_count(d, i) > minimum_change_frames_for_hit

\* ball_tracker.py:146-158: df.loc[i, 'ball_hit'] = 1
ball_hit(d, i) ==
    /\ negative_position_change(d, i) \/ positive_position_change(d, i)
    /\ change_count(d, i) > minimum_change_frames_for_hit - 1

RECURSIVE hit_index_list_descending(_, _, _)
\* hit_index_list with the rows taken from the last to the first
hit_index_list_descending(hits, lo, hi) ==
    IF lo > hi THEN <<>>
    ELSE IF lo = hi THEN (IF lo \in hits THEN <<lo>> ELSE <<>>)
    ELSE LET m == (lo + hi) \div 2
         IN  hit_index_list_descending(hits, m + 1, hi)
                 \o hit_index_list_descending(hits, lo, m)

RECURSIVE hit_index_list(_, _, _)
\* ball_tracker.py:161: the index values lo..hi of the rows with ball_hit == 1,
\* in row order
hit_index_list(hits, lo, hi) ==
    IF lo > hi THEN <<>>
    ELSE IF lo = hi THEN (IF lo \in hits THEN <<lo>> ELSE <<>>)
    ELSE LET m == (lo + hi) \div 2
         IN  hit_index_list(hits, lo, m) \o hit_index_list(hits, m + 1, hi)

\* the rows marked in the loop of ball_tracker.py:142-158
ball_hit_rows(d, len) == {i \in scanned_frames(len) : ball_hit(d, i)}

\* ball_tracker.py:143-151: the rows of delta_y that the pass for row i reads
\* with iloc.  `and` evaluates its right operand only when the left one is
\* true, and the inner loop runs only after a reversal at i.
delta_y_reads_at(d, i) ==
    {i} \cup (IF d[i] # 0 THEN {i + 1} ELSE {})
        \cup (IF negative_position_change(d, i) \/ positive_position_change(d, i)
              THEN (i + 1)..(i + LookAhead) ELSE {})

\* ball_tracker.py:142-151: the rows of delta_y read by the whole loop
delta_y_reads(d, len) == UNION {delta_y_reads_at(d, i) : i \in scanned_frames(len)}

get_ball_shot_frames(positions) ==
    hit_index_list(ball_hit_rows(delta_y(positions), Len(positions)), 0, Len(positions) - 1)

----------------------------------------------------------------------------
(* MiniCourt geometry read by main(): mini_court.py:76-84, 211-261, 348-357 *)

\* mini_court.py:76
drawing_rectangle_width == 250
\* mini_court.py:77
drawing_rectangle_height == 500
\* mini_court.py:78
buffer == 50
\* mini_court.py:79
padding_court == 20

\* width in pixels of the frame handed to MiniCourt(video_frames[0])
FrameWidth == 1920

\* the canvas placed from the left edge of the frame
set_canvas_background_box_position_left(frame_width) ==
    LET start_x == buffer
        end_y == buffer + drawing_rectangle_height
    IN  <<start_x, end_y - drawing_rectangle_height, start_x + drawing_rectangle_width, end_y>>

\* mini_court.py:258-261: <<start_x, start_y, end_x, end_y>> of the canvas
set_canvas_background_box_position(frame_width) ==
    LET end_x == frame_width - buffer
        end_y == buffer + drawing_rectangle_height
    IN  <<end_x - drawing_rectangle_width, end_y - drawing_rectangle_height, end_x, end_y>>

\* mini_court.py:225-229: self.court_drawing_width
court_drawing_width(frame_width) ==
    LET box == set_canvas_background_box_position(frame_width)
        court_start_x == box[1] + padding_court
        court_end_x == box[3] - padding_court
    IN  court_end_x - court_start_x

\* mini_court.py:348-357
get_width_of_mini_court == court_drawing_width(FrameWidth)

\* constants.DOUBLE_LINE_WIDTH, 10.97 m, in centimeters
DOUBLE_LINE_WIDTH == 1097

----------------------------------------------------------------------------
(* utils: bbox_utils.py:27-41, conversions.py:2-21 *)

RECURSIVE ISqrtBetween(_, _, _)
\* the largest r in lo..hi with r*r <= n
ISqrtBetween(n, lo, hi) ==
    IF lo >= hi THEN lo
    ELSE LET m == (lo + hi + 1) \div 2
         IN  IF m * m <= n THEN ISqrtBetween(n, m, hi) ELSE ISqrtBetween(n, lo, m - 1)

\* x**0.5 rounded down, for 0 <= n < 2^31
ISqrt(n) == ISqrtBetween(n, 0, IF n < 46340 THEN n ELSE 46340)

\* bbox_utils.py:41: ((p1[0]-p2[0])**2 + (p1[1]-p2[1])**2)**0.5, in tenths of a pixel
measure_distance(p1, p2) ==
    ISqrt(((p1[1] - p2[1]) * (p1[1] - p2[1]) + (p1[2] - p2[2]) * (p1[2] - p2[2])) * 100)

\* conversions.py:21: (pixel_distance * refrence_height_in_meters) / refrence_height_in_pixels;
\* tenths of a pixel times centimeters over pixels gives millimeters
convert_pixel_distance_to_meters(pixel_distance, refrence_height_in_meters, refrence_height_in_pixels) ==
    (pixel_distance * refrence_height_in_meters) \div refrence_height_in_pixels

----------------------------------------------------------------------------
(* Inputs of the aggregation: the mini-court positions of main.py:63 *)

\* where the two players and the ball are on the mini court at a shot frame
Placements ==
    { [p1 |-> <<100, 130>>, p2 |-> <<100, 400>>, ball |-> <<100, 100>>],
      [p1 |-> <<100, 100>>, p2 |-> <<100, 370>>, ball |-> <<100, 400>>],
      [p1 |-> <<220, 60>>,  p2 |-> <<220, 140>>, ball |-> <<220, 100>>] }

\* the positions in every frame that is not a shot frame
RestPlacement == [p1 |-> <<100, 120>>, p2 |-> <<100, 380>>, ball |-> <<100, 250>>]

\* the track identities kept by choose_and_filter_players, in dict order
PlayerIdOrders == {<<1, 2>>, <<2, 5>>, <<7, 12>>}

\* index of frame f in shots, or 0 when f is no shot frame
ShotIndexOf(shots, f) ==
    IF \E k \in 1..Len(shots) : shots[k] = f
    THEN CHOOSE k \in 1..Len(shots) : shots[k] = f
    ELSE 0

\* the placement of frame f, given one placement per shot frame
PlacementAt(shots, placing, f) ==
    IF ShotIndexOf(shots, f) = 0 THEN RestPlacement ELSE placing[ShotIndexOf(shots, f)]

----------------------------------------------------------------------------
(* The statistics of main(): main.py:67-135 *)

\* len(video_frames): the detections hold one entry per frame
frame_count == Len(ball_positions)

\* main.py:67-80; the five per-player fields are indexed by the player number
\* of their key (player_1_..., player_2_...)
InitialStats ==
    [frame_num |-> 0,
     number_of_shots |-> <<0, 0>>,
     total_shot_speed |-> <<0, 0>>,
     last_shot_speed |-> <<0, 0>>,
     total_player_speed |-> <<0, 0>>,
     last_player_speed |-> <<0, 0>>]

\* the player numbers for which InitialStats has keys
StatsPlayers == {1, 2}

\* loop_continues for range(len(ball_shot_frames)-2): the last pair is skipped
loop_continues_short(shots, ind) == ind < Len(shots) - 2

\* main.py:88: range(len(ball_shot_frames)-1) has a pass left for the index ind
loop_continues(shots, ind) == ind < Len(shots) - 1

\* main.py:89
start_frame == ball_shot_frames[ball_shot_ind + 1]
\* main.py:90
end_frame == ball_shot_frames[ball_shot_ind + 2]

\* speed_kmh without the factor 3.6: the speed is left in m/s
speed_kmh_unscaled(distance_meters, frames) == (distance_meters * FrameRate) \div frames

\* main.py:91, 102 and 118: distance_in_meters/ball_shot_time_in_seconds * 3.6
\* with ball_shot_time_in_seconds = (end_frame-start_frame)/24;
\* millimeters to mm/s to thousandths of a km/h
speed_kmh(distance_meters, frames) == (((distance_meters * FrameRate) \div frames) * 36) \div 10

\* main.py:94-102
ball_shot_speed(ball_detections, first, last) ==
    speed_kmh(convert_pixel_distance_to_meters(
                  measure_distance(ball_detections[first + 1], ball_detections[last + 1]),
                  DOUBLE_LINE_WIDTH, get_width_of_mini_court),
              last - first)

RECURSIVE min_by_distance(_, _, _, _)
\* min(keys, key=distance to target): the first of ids[k..] with the least distance
min_by_distance(ids, positions, target, k) ==
    IF k = Len(ids) THEN ids[k]
    ELSE LET rest == min_by_distance(ids, positions, target, k + 1)
         IN  IF measure_distance(positions[ids[k]], target)
                    <= measure_distance(positions[rest], target)
             THEN ids[k] ELSE rest

\* closest_player with max in the place of min: the farthest player
closest_player_farthest(ids, player_detections, ball_detections, first) ==
    LET positions == player_detections[first + 1]
        target == ball_detections[first + 1]
    IN  CHOOSE id \in {ids[k] : k \in 1..Len(ids)} :
            \A k \in 1..Len(ids) :
                measure_distance(positions[ids[k]], target)
                    <= measure_distance(positions[id], target)

\* main.py:105-107
closest_player(ids, player_detections, ball_detections, first) ==
    min_by_distance(ids, player_detections[first + 1], ball_detections[first + 1], 1)

\* main.py:110
opponent_of(player) == IF player = 2 THEN 1 ELSE 2

\* main.py:111-118
opponent_speed(player_detections, opponent, first, last) ==
    speed_kmh(convert_pixel_distance_to_meters(
                  measure_distance(player_detections[first + 1][opponent],
                                   player_detections[last + 1][opponent]),
                  DOUBLE_LINE_WIDTH, get_width_of_mini_court),
              last - first)

\* updated_stats with the striker's summed shot speed assigned, not added to
updated_stats_overwriting(previous, first, striker, opponent, ball_speed, opp_speed) ==
    [previous EXCEPT
        !.frame_num = first,
        !.number_of_shots[striker] = @ + 1,
        !.total_shot_speed[striker] = ball_speed,
        !.last_shot_speed[striker] = ball_speed,
        !.total_player_speed[opponent] = @ + opp_speed,
        !.last_player_speed[opponent] = opp_speed]

\* updated_stats with the opponent's movement written to the striker
updated_stats_striker_moves(previous, first, striker, opponent, ball_speed, opp_speed) ==
    [previous EXCEPT
        !.frame_num = first,
        !.number_of_shots[striker] = @ + 1,
        !.total_shot_speed[striker] = @ + ball_speed,
        !.last_shot_speed[striker] = ball_speed,
        !.total_player_speed[striker] = @ + opp_speed,
        !.last_player_speed[striker] = opp_speed]

\* main.py:120-127: the deep copy of the last snapshot, updated
updated_stats(previous, first, striker, opponent, ball_speed, opp_speed) ==
    [previous EXCEPT
        !.frame_num = first,
        !.number_of_shots[striker] = @ + 1,
        !.total_shot_speed[striker] = @ + ball_speed,
        !.last_shot_speed[striker] = ball_speed,
        !.total_player_speed[opponent] = @ + opp_speed,
        !.last_player_speed[opponent] = opp_speed]

\* main.py:111-112 raises KeyError: the opponent has no position at start or end
opponent_missing(player_detections, opponent, first, last) ==
    \/ opponent \notin DOMAIN player_detections[first + 1]
    \/ opponent \notin DOMAIN player_detections[last + 1]

\* main.py:122 raises KeyError: the snapshot has no key player_<striker>_number_of_shots
striker_has_no_stats(striker) == striker \notin StatsPlayers

\* a row of a merged table without a match in the right table: NaN in every
\* column but frame_num
NaNStats == [nan |-> TRUE]

\* the columns of a snapshot other than frame_num
stats_of(snapshot) ==
    [nan |-> FALSE,
     number_of_shots |-> snapshot.number_of_shots,
     total_shot_speed |-> snapshot.total_shot_speed,
     last_shot_speed |-> snapshot.last_shot_speed,
     total_player_speed |-> snapshot.total_player_speed,
     last_player_speed |-> snapshot.last_player_speed]

RECURSIVE matching_rows(_, _, _)
\* the rows of the first k snapshots whose frame_num is f, in list order
matching_rows(snapshots, f, k) ==
    IF k = 0 THEN <<>>
    ELSE IF snapshots[k].frame_num = f
         THEN Append(matching_rows(snapshots, f, k - 1),
                     [frame_num |-> f, stats |-> stats_of(snapshots[k])])
         ELSE matching_rows(snapshots, f, k - 1)

\* merged_rows_of for how='inner': a frame without a snapshot has no row
merged_rows_of_inner(snapshots, f) == matching_rows(snapshots, f, Len(snapshots))

\* main.py:134, the rows pd.merge(how='left') makes of frame f
merged_rows_of(snapshots, f) ==
    LET matches == matching_rows(snapshots, f, Len(snapshots))
    IN  IF matches = <<>> THEN <<[frame_num |-> f, stats |-> NaNStats]>> ELSE matches

RECURSIVE merge_left(_, _, _)
\* main.py:132-134: pd.merge(frames_df, player_stats_data_df, on='frame_num',
\* how='left'), the rows of the frames lo..hi in the order of frames_df
merge_left(snapshots, lo, hi) ==
    IF lo > hi THEN <<>>
    ELSE IF lo = hi THEN merged_rows_of(snapshots, lo)
    ELSE LET m == (lo + hi) \div 2
         IN  merge_left(snapshots, lo, m) \o merge_left(snapshots, m + 1, hi)

\* the rows of a table that are not NaN
valid_rows(table) == {k \in 1..Len(table) : ~table[k].stats.nan}

\* the greatest member of a non-empty set of numbers
MaxOf(S) == CHOOSE k \in S : \A j \in S : j <= k

\* ffill replaced by bfill: a NaN takes the first valid value below it
bfill(table) ==
    LET valid == valid_rows(table)
    IN  [n \in 1..Len(table) |->
            LET below == {k \in valid : k >= n}
            IN  IF table[n].stats.nan /\ below # {}
                THEN [table[n] EXCEPT
                         !.stats = table[CHOOSE k \in below : \A j \in below : k <= j].stats]
                ELSE table[n]]

\* main.py:135: DataFrame.ffill(): a NaN takes the last valid value above it,
\* and stays NaN when there is none
ffill(table) ==
    LET valid == valid_rows(table)
    IN  [n \in 1..Len(table) |->
            LET above == {k \in valid : k <= n}
            IN  IF table[n].stats.nan /\ above # {}
                THEN [table[n] EXCEPT !.stats = table[MaxOf(above)].stats]
                ELSE table[n]]

\* main.py:132-135
stats_table(frames, snapshots) == ffill(merge_left(snapshots, 0, frames - 1))

\* a float of a DataFrame column: NaN, inf or a finite value in thousandths
FloatNaN == [nan |-> TRUE, inf |-> FALSE, value |-> 0]
FloatInf == [nan |-> FALSE, inf |-> TRUE, value |-> 0]
FloatOf(n) == [nan |-> FALSE, inf |-> FALSE, value |-> n]

\* main.py:137-140: the division of two float columns of the table.  pandas
\* raises nothing on a zero divisor: 0/0 is NaN and x/0 is inf for x > 0.
column_division(total, count) ==
    IF count = 0 THEN (IF total = 0 THEN FloatNaN ELSE FloatInf)
    ELSE FloatOf(total \div count)

\* main.py:137-138: player_<p>_total_shot_speed / player_<p>_number_of_shots
average_shot_speed(stats, p) ==
    IF stats.nan THEN FloatNaN
    ELSE column_division(stats.total_shot_speed[p], stats.number_of_shots[p])

\* average_player_speed with the player's own shot count as the divisor
average_player_speed_own_count(stats, p) ==
    IF stats.nan THEN FloatNaN
    ELSE column_division(stats.total_player_speed[p], stats.number_of_shots[p])

\* main.py:139-140: player_1_total_player_speed / player_2_number_of_shots and
\* player_2_total_player_speed / player_1_number_of_shots
average_player_speed(stats, p) ==
    IF stats.nan THEN FloatNaN
    ELSE column_division(stats.total_player_speed[p], stats.number_of_shots[3 - p])

\* main.py:137-140: the four average columns added to every row
with_averages(table) ==
    [n \in 1..Len(table) |->
        [frame_num |-> table[n].frame_num,
         stats |-> table[n].stats,
         average_shot_speed |-> <<average_shot_speed(table[n].stats, 1),
                                  average_shot_speed(table[n].stats, 2)>>,
         average_player_speed |-> <<average_player_speed(table[n].stats, 1),
                                    average_player_speed(table[n].stats, 2)>>]]

----------------------------------------------------------------------------
(* Actions *)

Init ==
    /\ pc = "detect_shots"
    /\ \E len \in SeqLens, dir0 \in {-1, 1}, turns \in TurnSets, stalls \in StallSets :
           ball_positions = BallBoxes(dir0, turns, stalls, len)
    /\ ball_shot_frames = <<>>
    /\ player_ids = <<>>
    /\ player_mini_court_detections = <<>>
    /\ ball_mini_court_detections = <<>>
    /\ player_stats_data = <<>>
    /\ ball_shot_ind = 0
    /\ player_shot_ball = 0
    /\ opponent_player_id = 0
    /\ speed_of_ball_shot = 0
    /\ speed_of_opponent = 0
    /\ player_stats_data_df = <<>>
    /\ error = "none"
    /\ SelectionIdle /\ InterpolationIdle /\ ConversionIdle /\ PipelineIdle

\* main.py:60
DetectShots ==
    /\ pc = "detect_shots"
    /\ UNCHANGED <<selection_vars, interpolation_vars, conversion_vars, pipeline_vars>>
    /\ ball_shot_frames' = get_ball_shot_frames(ball_positions)
    /\ pc' = "convert"
    /\ UNCHANGED <<ball_positions, player_ids, player_mini_court_detections,
                   ball_mini_court_detections, player_stats_data, ball_shot_ind,
                   player_shot_ball, opponent_player_id, speed_of_ball_shot,
                   speed_of_opponent, player_stats_data_df, error>>

\* main.py:63-80: the mini-court positions are received and the list of
\* snapshots is created with the zeroed snapshot
ReceiveMiniCourtDetections ==
    /\ pc = "convert"
    /\ UNCHANGED <<selection_vars, interpolation_vars, conversion_vars, pipeline_vars>>
    /\ \E ids \in PlayerIdOrders,
          placing \in [1..Len(ball_shot_frames) -> Placements] :
          /\ player_ids' = ids
          /\ player_mini_court_detections' =
                 [i \in 1..frame_count |->
                     LET p == PlacementAt(ball_shot_frames, placing, i - 1)
                     IN  (ids[1] :> p.p1) @@ (ids[2] :> p.p2)]
          /\ ball_mini_court_detections' =
                 [i \in 1..frame_count |->
                     PlacementAt(ball_shot_frames, placing, i - 1).ball]
    /\ player_stats_data' = <<InitialStats>>
    /\ ball_shot_ind' = 0
    /\ pc' = "aggregate"
    /\ UNCHANGED <<ball_positions, ball_shot_frames, player_shot_ball,
                   opponent_player_id, speed_of_ball_shot, speed_of_opponent,
                   player_stats_data_df, error>>

\* main.py:88-129, one pass of the loop that ends at line 129
UpdateStats ==
    /\ pc = "aggregate"
    /\ UNCHANGED <<selection_vars, interpolation_vars, conversion_vars, pipeline_vars>>
    /\ loop_continues(ball_shot_frames, ball_shot_ind)
    /\ LET striker == closest_player(player_ids, player_mini_court_detections,
                                     ball_mini_court_detections, start_frame)
           opponent == opponent_of(striker)
       IN  /\ ~opponent_missing(player_mini_court_detections, opponent,
                                start_frame, end_frame)
           /\ ~striker_has_no_stats(striker)
           /\ speed_of_ball_shot' =
                  ball_shot_speed(ball_mini_court_detections, start_frame, end_frame)
           /\ player_shot_ball' = striker
           /\ opponent_player_id' = opponent
           /\ speed_of_opponent' =
                  opponent_speed(player_mini_court_detections, opponent,
                                 start_frame, end_frame)
           /\ player_stats_data' =
                  Append(player_stats_data,
                         updated_stats(player_stats_data[Len(player_stats_data)],
                                       start_frame, striker, opponent,
                                       speed_of_ball_shot', speed_of_opponent'))
    /\ ball_shot_ind' = ball_shot_ind + 1
    /\ UNCHANGED <<pc, ball_positions, ball_shot_frames, player_ids,
                   player_mini_court_detections, ball_mini_court_detections,
                   player_stats_data_df, error>>

\* main.py:88-111, a pass of the loop that raises KeyError at line 111
UpdateStatsOpponentKeyError ==
    /\ pc = "aggregate"
    /\ UNCHANGED <<selection_vars, interpolation_vars, conversion_vars, pipeline_vars>>
    /\ loop_continues(ball_shot_frames, ball_shot_ind)
    /\ LET striker == closest_player(player_ids, player_mini_court_detections,
                                     ball_mini_court_detections, start_frame)
           opponent == opponent_of(striker)
       IN  /\ opponent_missing(player_mini_court_detections, opponent,
                               start_frame, end_frame)
           /\ speed_of_ball_shot' =
                  ball_shot_speed(ball_mini_court_detections, start_frame, end_frame)
           /\ player_shot_ball' = striker
           /\ opponent_player_id' = opponent
    /\ error' = "KeyError"
    /\ pc' = "failed"
    /\ UNCHANGED <<ball_positions, ball_shot_frames, player_ids,
                   player_mini_court_detections, ball_mini_court_detections,
                   player_stats_data, ball_shot_ind, speed_of_opponent,
                   player_stats_data_df>>

\* main.py:88-122, a pass of the loop that raises KeyError at line 122
UpdateStatsStrikerKeyError ==
    /\ pc = "aggregate"
    /\ UNCHANGED <<selection_vars, interpolation_vars, conversion_vars, pipeline_vars>>
    /\ loop_continues(ball_shot_frames, ball_shot_ind)
    /\ LET striker == closest_player(player_ids, player_mini_court_detections,
                                     ball_mini_court_detections, start_frame)
           opponent == opponent_of(striker)
       IN  /\ ~opponent_missing(player_mini_court_detections, opponent,
                                start_frame, end_frame)
           /\ striker_has_no_stats(striker)
           /\ speed_of_ball_shot' =
                  ball_shot_speed(ball_mini_court_detections, start_frame, end_frame)
           /\ player_shot_ball' = striker
           /\ opponent_player_id' = opponent
           /\ speed_of_opponent' =
                  opponent_speed(player_mini_court_detections, opponent,
                                 start_frame, end_frame)
    /\ error' = "KeyError"
    /\ pc' = "failed"
    /\ UNCHANGED <<ball_positions, ball_shot_frames, player_ids,
                   player_mini_court_detections, ball_mini_court_detections,
                   player_stats_data, ball_shot_ind, player_stats_data_df>>

\* main.py:132-140, after the loop
BuildStatsTable ==
    /\ pc = "aggregate"
    /\ UNCHANGED <<selection_vars, interpolation_vars, conversion_vars, pipeline_vars>>
    /\ ~loop_continues(ball_shot_frames, ball_shot_ind)
    /\ player_stats_data_df' = with_averages(stats_table(frame_count, player_stats_data))
    /\ pc' = "table"
    /\ UNCHANGED <<ball_positions, ball_shot_frames, player_ids,
                   player_mini_court_detections, ball_mini_court_detections,
                   player_stats_data, ball_shot_ind, player_shot_ball,
                   opponent_player_id, speed_of_ball_shot, speed_of_opponent, error>>

Next ==
    \/ DetectShots
    \/ ReceiveMiniCourtDetections
    \/ UpdateStats
    \/ UpdateStatsOpponentKeyError
    \/ UpdateStatsStrikerKeyError
    \/ BuildStatsTable

Spec == Init /\ [][Next]_vars

----------------------------------------------------------------------------
(* Definitions shared by the properties.  They restate what the            *)
(* specification says and use none of the operators that model the code.   *)

\* the members of a sequence
Range(seq) == {seq[k] : k \in 1..Len(seq)}

\* the last frame of the ball sequence
LastFrame == Len(ball_positions) - 1

\* twice the vertical midpoint (y1+y2)/2 of the ball box at frame t
MidTwice(t) == ball_positions[t + 1][2] + ball_positions[t + 1][4]

RECURSIVE MidTwiceBefore(_)
\* MidTwice summed over the frames 0..t-1
MidTwiceBefore(t) == IF t = 0 THEN 0 ELSE MidTwice(t - 1) + MidTwiceBefore(t - 1)

\* sign of delta(t), the first difference of the trailing 5-sample mean.
\* From frame 5 on both means hold 5 samples and differ by
\* (mid(t) - mid(t-5))/5; before, mean(0..t) - mean(0..t-1) has the sign of
\* t*mid(t) - (mid(0) + ... + mid(t-1)).
DeltaSign(t) ==
    IF t >= 5 THEN Sign(MidTwice(t) - MidTwice(t - 5))
    ELSE Sign(t * MidTwice(t) - MidTwiceBefore(t))

\* delta(i) and delta(i+1) have strictly opposite signs
Reversal(i) == DeltaSign(i) * DeltaSign(i + 1) = -1

\* the number of frames i+1..i+30 whose delta has the sign of delta(i+1)
Persistence(i) == Cardinality({t \in (i + 1)..(i + 30) : DeltaSign(t) = DeltaSign(i + 1)})

\* what the specification says a shot frame is
IsShot(i) ==
    /\ i \in 1..(LastFrame - 30)
    /\ Reversal(i)
    /\ Persistence(i) >= 25

\* squared distance of two points
Dist2(p, q) == (p[1] - q[1]) * (p[1] - q[1]) + (p[2] - q[2]) * (p[2] - q[2])

\* the number of snapshot updates made so far
Updates == Len(player_stats_data) - 1

\* the player whose shot count the k-th update raised
Credited(k) ==
    CHOOSE p \in {1, 2} :
        player_stats_data[k + 1].number_of_shots[p] > player_stats_data[k].number_of_shots[p]

\* the per-player columns of a snapshot or of a table row
SameStats(a, b) ==
    /\ a.number_of_shots = b.number_of_shots
    /\ a.total_shot_speed = b.total_shot_speed
    /\ a.last_shot_speed = b.last_shot_speed
    /\ a.total_player_speed = b.total_player_speed
    /\ a.last_player_speed = b.last_player_speed

\* the all-zero baseline
ZeroStats ==
    [number_of_shots |-> <<0, 0>>, total_shot_speed |-> <<0, 0>>,
     last_shot_speed |-> <<0, 0>>, total_player_speed |-> <<0, 0>>,
     last_player_speed |-> <<0, 0>>]

----------------------------------------------------------------------------
(* C1: get_ball_shot_frames returns frame i if and only if i is in the     *)
(* scanned range 1..len-31, delta(i) and delta(i+1) have strictly opposite *)
(* signs (a zero delta never counts), and at least 25 of the 30 frames     *)
(* i+1..i+30 have a delta of the sign of delta(i+1).  ball_shot_frames is  *)
(* assigned once, by DetectShots, so the property is stated where it was   *)
(* just assigned.                                                          *)
C1_ShotIffPersistentReversal ==
    pc = "convert" =>
        /\ Range(ball_shot_frames) \subseteq 0..LastFrame
        /\ \A i \in 0..LastFrame : (i \in Range(ball_shot_frames)) <=> IsShot(i)

\* a sequence with a confirmed shot, a reversal that is not confirmed and a
\* change of direction through a zero delta
C1_Witness ==
    /\ pc = "convert"
    /\ ball_shot_frames # <<>>
    /\ \E i \in 1..(LastFrame - 30) : Reversal(i) /\ Persistence(i) = 24
    /\ \E i \in 1..(LastFrame - 30) :
           DeltaSign(i) # 0 /\ DeltaSign(i + 1) = 0 /\ DeltaSign(i + 2) = -DeltaSign(i)

(* C2: the list returned by get_ball_shot_frames is strictly increasing in *)
(* frame index, so no frame index is in it twice.                          *)
C2_ShotsStrictlyIncreasing ==
    pc = "convert" =>
        \A j, k \in 1..Len(ball_shot_frames) :
            j < k => ball_shot_frames[j] < ball_shot_frames[k]

C2_Witness == pc = "convert" /\ Len(ball_shot_frames) = 3

(* C3: the final statistics table has exactly one row per video frame: N   *)
(* rows, row f carrying frame number f, no frame number twice.  The table  *)
(* exists once the aggregation has completed (pc = "table").               *)
C3_OneRowPerFrame ==
    pc = "table" =>
        /\ Len(player_stats_data_df) = frame_count
        /\ \A f \in 0..(frame_count - 1) : player_stats_data_df[f + 1].frame_num = f
        /\ Cardinality({player_stats_data_df[k].frame_num : k \in 1..Len(player_stats_data_df)})
               = Len(player_stats_data_df)

C3_Witness == pc = "table" /\ Updates = 2 /\ frame_count > 0

(* C4: in the table, each player's cumulative shot count, cumulative shot  *)
(* speed and cumulative movement speed never decrease from a frame to the  *)
(* next one, hence from any frame f1 to any later frame f2.                *)
C4_CumulativeNonDecreasing ==
    pc = "table" =>
        \A f \in 1..(Len(player_stats_data_df) - 1) : \A p \in {1, 2} :
            LET a == player_stats_data_df[f].stats
                b == player_stats_data_df[f + 1].stats
            IN  /\ ~a.nan /\ ~b.nan
                /\ a.number_of_shots[p] <= b.number_of_shots[p]
                /\ a.total_shot_speed[p] <= b.total_shot_speed[p]
                /\ a.total_player_speed[p] <= b.total_player_speed[p]

\* both players have struck once and moved once, at positive speeds
C4_Witness ==
    /\ pc = "table"
    /\ LET last == player_stats_data_df[Len(player_stats_data_df)].stats
       IN  /\ last.number_of_shots = <<1, 1>>
           /\ \A p \in {1, 2} : last.total_shot_speed[p] > 0 /\ last.total_player_speed[p] > 0

(* C5: a snapshot update for the pair (start, end) appends a copy of the   *)
(* previous snapshot in which only these changed: the striker's shot count *)
(* (+1), the striker's cumulative shot speed (+ ball speed) and last shot  *)
(* speed (= ball speed), the opponent's cumulative movement speed          *)
(* (+ opponent speed) and last movement speed (= opponent speed), and the  *)
(* frame number (= start).  The striker's movement fields and the          *)
(* opponent's shot fields are kept, and no step changes a snapshot that    *)
(* was already in the list.                                                *)
C5_UpdateFrame ==
    [][ /\ \A k \in 1..Len(player_stats_data) :
               /\ k <= Len(player_stats_data')
               /\ player_stats_data'[k] = player_stats_data[k]
        /\ (player_stats_data # <<>> /\ player_stats_data' # player_stats_data) =>
               LET old == player_stats_data[Len(player_stats_data)]
                   new == player_stats_data'[Len(player_stats_data')]
                   s == player_shot_ball'
                   o == opponent_player_id'
               IN  /\ Len(player_stats_data') = Len(player_stats_data) + 1
                   /\ {s, o} = {1, 2}
                   /\ new.frame_num = ball_shot_frames[ball_shot_ind + 1]
                   /\ new.number_of_shots[s] = old.number_of_shots[s] + 1
                   /\ new.total_shot_speed[s] = old.total_shot_speed[s] + speed_of_ball_shot'
                   /\ new.last_shot_speed[s] = speed_of_ball_shot'
                   /\ new.total_player_speed[o] = old.total_player_speed[o] + speed_of_opponent'
                   /\ new.last_player_speed[o] = speed_of_opponent'
                   /\ new.total_player_speed[s] = old.total_player_speed[s]
                   /\ new.last_player_speed[s] = old.last_player_speed[s]
                   /\ new.number_of_shots[o] = old.number_of_shots[o]
                   /\ new.total_shot_speed[o] = old.total_shot_speed[o]
                   /\ new.last_shot_speed[o] = old.last_shot_speed[o]
      ]_vars

\* two updates were made, the second on top of non-zero values
C5_Witness ==
    /\ pc = "aggregate"
    /\ Updates = 2
    /\ player_stats_data[2].last_shot_speed # <<0, 0>>
    /\ player_stats_data[3] # player_stats_data[2]

(* C6: for every frame f the table row of f holds the values of the        *)
(* snapshot emitted at the greatest shot-start frame <= f, and the         *)
(* all-zero baseline when no snapshot was emitted at or before f.          *)
C6_ForwardFill ==
    pc = "table" =>
        \A f \in 0..(frame_count - 1) :
            LET emitted == {k \in 2..Len(player_stats_data) :
                               player_stats_data[k].frame_num <= f}
                row == player_stats_data_df[f + 1].stats
            IN  /\ ~row.nan
                /\ IF emitted = {} THEN SameStats(row, ZeroStats)
                   ELSE \E k \in emitted :
                            /\ \A j \in emitted :
                                   player_stats_data[j].frame_num
                                       <= player_stats_data[k].frame_num
                            /\ SameStats(row, player_stats_data[k])

\* two snapshots were emitted, with frames before, between and after them
C6_Witness ==
    /\ pc = "table"
    /\ Updates = 2
    /\ player_stats_data[2].frame_num > 0
    /\ player_stats_data[3].frame_num > player_stats_data[2].frame_num + 1
    /\ player_stats_data[3].frame_num < frame_count - 1
    /\ ~SameStats(player_stats_data[3], player_stats_data[2])

(* C7: for a shot list of n frames the aggregation makes exactly           *)
(* max(0, n-1) snapshot updates, the k-th for the pair that starts at the  *)
(* k-th shot frame; with zero or one shot frame it raises nothing and      *)
(* every frame carries the zeroed baseline; the two players' shot counts   *)
(* at the last video frame sum to n-1 (to 0 when n = 0).  The counts are   *)
(* those of a completed aggregation (pc = "table"); a run that main.py:111 *)
(* or 122 ends with KeyError builds no table.                              *)
C7_OneUpdatePerPair ==
    LET n == Len(ball_shot_frames)
        pairs == IF n = 0 THEN 0 ELSE n - 1
    IN  /\ (pc \in {"aggregate", "table"}) =>
               /\ Updates <= pairs
               /\ \A k \in 1..Updates :
                      player_stats_data[k + 1].frame_num = ball_shot_frames[k]
        /\ (n <= 1) => error = "none" /\ pc # "failed"
        /\ pc = "table" =>
               /\ Updates = pairs
               /\ LET last == player_stats_data_df[frame_count].stats
                  IN  last.number_of_shots[1] + last.number_of_shots[2] = pairs
               /\ (n <= 1) =>
                      \A f \in 1..frame_count :
                          SameStats(player_stats_data_df[f].stats, ZeroStats)

C7_Witness == pc = "table" /\ Len(ball_shot_frames) = 3 /\ Updates = 2

(* C8: for every consecutive shot pair (start, end) the player credited    *)
(* with the shot is a player whose mini-court position at frame start has  *)
(* the smallest Euclidean distance to the ball's mini-court position at    *)
(* frame start.                                                            *)
C8_StrikerIsNearest ==
    (pc \in {"aggregate", "table"}) =>
        \A k \in 1..Updates :
            LET start == ball_shot_frames[k]
                players == player_mini_court_detections[start + 1]
                ball == ball_mini_court_detections[start + 1]
            IN  /\ Credited(k) \in DOMAIN players
                /\ \A q \in DOMAIN players :
                       Dist2(players[Credited(k)], ball) <= Dist2(players[q], ball)

\* the second player was strictly nearer and was credited
C8_Witness ==
    /\ pc = "aggregate"
    /\ Updates >= 1
    /\ Credited(1) = 2
    /\ LET start == ball_shot_frames[1]
           players == player_mini_court_detections[start + 1]
           ball == ball_mini_court_detections[start + 1]
       IN  Dist2(players[2], ball) < Dist2(players[1], ball)

(* C9: for any two distinct track identities chosen by the player          *)
(* selector (for example 7 and 12) the opponent of a shot is the selected  *)
(* player that is not the striker, and the update is recorded for these    *)
(* two players without error.                                              *)
C9_AnyTwoIdentities ==
    /\ error = "none"
    /\ player_shot_ball # 0 =>
           /\ opponent_player_id \in Range(player_ids)
           /\ opponent_player_id # player_shot_ball

(* C10: for every consecutive shot pair (start, end) the ball speed        *)
(* credited to the striker is pixel_distance * 10.97 / 210 /               *)
(* ((end - start) / 24) * 3.6, with pixel_distance the Euclidean distance  *)
(* of the ball's mini-court positions at start and end; with shot frames   *)
(* [10, 58] and ball positions (100,100) and (100,400) it is 28.2 km/h     *)
(* within 0.01.  Speeds are in thousandths of a km/h and the pixel         *)
(* distance P in tenths of a pixel, so the formula is                      *)
(* P * 1097*24*36 / (2100 * (end-start)) = P * 78984 / (175 * (end-start)); *)
(* the three roundings of the fixed-point arithmetic lose less than        *)
(* 5 + 87/(end-start) thousandths.                                         *)
C10_BallSpeedFormula ==
    (pc \in {"aggregate", "table"}) =>
        \A k \in 1..Updates :
            LET start == ball_shot_frames[k]
                end == ball_shot_frames[k + 1]
                frames == end - start
                P == ISqrt(100 * Dist2(ball_mini_court_detections[start + 1],
                                       ball_mini_court_detections[end + 1]))
                S == player_stats_data[k + 1].last_shot_speed[Credited(k)]
                gap == P * 78984 - S * 175 * frames
            IN  /\ frames > 0
                /\ gap >= 0
                /\ gap < (5 * frames + 87) * 175
                /\ ( /\ start = 10 /\ end = 58
                     /\ ball_mini_court_detections[start + 1] = <<100, 100>>
                     /\ ball_mini_court_detections[end + 1] = <<100, 400>> )
                   => S \in (28200 - 10)..(28200 + 10)

\* the scenario of the specification: shot frames [10, 58], the ball at
\* (100,100) and at (100,400)
C10_Witness ==
    /\ pc = "aggregate"
    /\ ball_shot_frames = <<10, 58>>
    /\ Updates = 1
    /\ ball_mini_court_detections[11] = <<100, 100>>
    /\ ball_mini_court_detections[59] = <<100, 400>>

(* C11: if a player's cumulative shot count is zero at a frame, that        *)
(* player's average shot speed at that frame is an explicit 'not            *)
(* available' sentinel: no division error is raised and the value is       *)
(* neither NaN nor zero.                                                   *)
C11_ZeroCountGivesSentinel ==
    pc = "table" =>
        \A f \in 1..Len(player_stats_data_df) : \A p \in {1, 2} :
            LET row == player_stats_data_df[f]
            IN  row.stats.number_of_shots[p] = 0 =>
                    /\ ~row.average_shot_speed[p].nan
                    /\ row.average_shot_speed[p] # FloatOf(0)

\* the floor of total/count, stated by multiplication
IsQuotient(q, total, count) ==
    /\ ~q.nan /\ ~q.inf
    /\ q.value * count <= total
    /\ total < (q.value + 1) * count

\* the number of shot intervals starting at or before frame f in which
\* player p was not the striker
OpponentIntervals(p, f) ==
    Cardinality({k \in 1..Updates :
                    player_stats_data[k + 1].frame_num <= f /\ Credited(k) # p})

(* C12: at every frame, each player's average shot speed is that player's  *)
(* cumulative shot speed divided by that player's own shot count, and each *)
(* player's average movement speed is that player's cumulative movement    *)
(* speed divided by the number of shot intervals in which that player was  *)
(* the non-striking opponent.  A quotient exists when the divisor is not   *)
(* zero; speeds are in thousandths of a km/h, rounded down.                *)
C12_AveragesAreSumOverCount ==
    pc = "table" =>
        \A f \in 1..Len(player_stats_data_df) : \A p \in {1, 2} :
            LET row == player_stats_data_df[f]
                shots == row.stats.number_of_shots[p]
                intervals == OpponentIntervals(p, row.frame_num)
            IN  /\ shots > 0 =>
                       IsQuotient(row.average_shot_speed[p],
                                  row.stats.total_shot_speed[p], shots)
                /\ intervals > 0 =>
                       IsQuotient(row.average_player_speed[p],
                                  row.stats.total_player_speed[p], intervals)

\* at the last frame player 1 has struck twice and player 2 never, so the
\* two divisors of a player differ
C12_Witness ==
    /\ pc = "table"
    /\ LET last == player_stats_data_df[Len(player_stats_data_df)]
       IN  /\ last.stats.number_of_shots = <<2, 0>>
           /\ last.stats.total_player_speed[2] > 0
           /\ last.average_player_speed[2].value > 0
           /\ last.average_shot_speed[1].value > 0

(* C29: for a ball sequence of L frames, get_ball_shot_frames reads delta  *)
(* only at frames within 1..L-1, and every frame it returns is within      *)
(* 1..L-31: frame 0 and the last 30 frames are never returned, and a       *)
(* sequence of 31 frames or fewer gives the empty list.                    *)
C29_ReadsAndShotsInRange ==
    pc = "convert" =>
        /\ delta_y_reads(delta_y(ball_positions), Len(ball_positions)) \subseteq 1..LastFrame
        /\ Range(ball_shot_frames) \subseteq 1..(LastFrame - 30)
        /\ Len(ball_positions) <= 31 => ball_shot_frames = <<>>

\* a sequence whose last scanned frame L-31 is returned, so that the inner
\* loop has read delta at the last frame L-1
C29_Witness ==
    /\ pc = "convert"
    /\ (LastFrame - 30) \in Range(ball_shot_frames)
    /\ LastFrame \in delta_y_reads(delta_y(ball_positions), Len(ball_positions))

\* a sequence of 31 frames, one too short for the loop to have a pass
C29_WitnessShort == pc = "convert" /\ Len(ball_positions) = 31 /\ ball_shot_frames = <<>>

----------------------------------------------------------------------------
(* PlayerTracker.choose_and_filter_players: player_tracker.py:76-133       *)
(* A dict of a frame is the sequence of its items in insertion order; an   *)
(* item is [track_id, bbox].                                               *)

\* the most entities detected in the first frame
MaxEntities == 3
\* the most frames of a player detection list
MaxSelectionFrames == 2

\* track identities the detector may give
TrackIds == {1, 2, 3, 7}

\* boxes of the first frame: two whose centres are 50 pixels from a keypoint
\* (the first with a half-pixel centre), one far from the court
EntityBoxes == {<<280, 100, 321, 200>>, <<880, 100, 920, 200>>, <<100, 100, 140, 180>>}

\* the 14 court keypoints as the flat list x0, y0, x1, y1, ...
KeypointLists ==
    {<<300, 200, 900, 200, 200, 800, 1000, 800, 370, 200, 290, 800, 830, 200,
       910, 800, 350, 350, 850, 350, 320, 650, 880, 650, 600, 350, 600, 650>>}

\* what a later frame may hold: every track moved, one track left, a new track
LaterFrames ==
    { <<[track_id |-> 1, bbox |-> <<285, 110, 325, 210>>],
        [track_id |-> 2, bbox |-> <<875, 105, 915, 205>>],
        [track_id |-> 3, bbox |-> <<105, 100, 145, 180>>],
        [track_id |-> 7, bbox |-> <<500, 300, 540, 400>>]>>,
      <<[track_id |-> 2, bbox |-> <<870, 110, 910, 210>>]>>,
      <<[track_id |-> 9, bbox |-> <<600, 600, 640, 700>>],
        [track_id |-> 7, bbox |-> <<505, 300, 545, 400>>],
        [track_id |-> 1, bbox |-> <<290, 120, 330, 220>>]>> }

\* the first-frame dicts: up to MaxEntities items with distinct track ids
FirstFrames ==
    UNION {{items \in [1..n -> [track_id : TrackIds, bbox : EntityBoxes]] :
               \A a, b \in 1..n : items[a].track_id = items[b].track_id => a = b}
           : n \in 0..MaxEntities}

\* the player detection lists: a first frame and up to MaxSelectionFrames-1 more
DetectionLists ==
    UNION {{<<first>> \o rest : first \in FirstFrames, rest \in [1..n -> LaterFrames]}
           : n \in 0..(MaxSelectionFrames - 1)}

\* the keys of a dict
keys_of(player_dict) == {player_dict[k].track_id : k \in 1..Len(player_dict)}

\* bbox_utils.py:163: (int((bbox[0]+bbox[2])/2), int((bbox[1]+bbox[3])/2)),
\* coordinates are not negative
get_center_of_bbox(bbox) == <<(bbox[1] + bbox[3]) \div 2, (bbox[2] + bbox[4]) \div 2>>

\* bbox_utils.py:41 as choose_players uses it, to compare distances: x**0.5
\* is increasing, so two distances compare as their squares do
measure_distance_squared(p1, p2) ==
    (p1[1] - p2[1]) * (p1[1] - p2[1]) + (p1[2] - p2[2]) * (p1[2] - p2[2])

\* player_tracker.py:123
court_keypoint(keypoints, i) == <<keypoints[2 * i + 1], keypoints[2 * i + 2]>>

\* player_tracker.py:119-126: the least distance from the box centre to a keypoint
min_distance(keypoints, bbox) ==
    LET player_center == get_center_of_bbox(bbox)
        all == {measure_distance_squared(player_center, court_keypoint(keypoints, i))
                   : i \in 0..((Len(keypoints) \div 2) - 1)}
    IN  CHOOSE d \in all : \A e \in all : d <= e

\* player_tracker.py:117-127: the (track_id, min_distance) pairs in dict order
distances_of(keypoints, player_dict) ==
    [k \in 1..Len(player_dict) |->
        <<player_dict[k].track_id, min_distance(keypoints, player_dict[k].bbox)>>]

RECURSIVE sort_by_distance(_)
\* player_tracker.py:130: list.sort(key=lambda x: x[1]), a stable sort: an item
\* goes behind the items before it that are not farther
sort_by_distance(distances) ==
    IF distances = <<>> THEN <<>>
    ELSE LET sorted == sort_by_distance(SubSeq(distances, 1, Len(distances) - 1))
             last == distances[Len(distances)]
             ahead == Cardinality({k \in 1..Len(sorted) : sorted[k][2] <= last[2]})
         IN  SubSeq(sorted, 1, ahead) \o <<last>> \o SubSeq(sorted, ahead + 1, Len(sorted))

\* choose_players without the sort: the first two tracks of the dict
choose_players_unsorted(keypoints, player_dict) ==
    LET distances == distances_of(keypoints, player_dict)
    IN  <<distances[1][1], distances[2][1]>>

\* player_tracker.py:117-133, for a dict of two or more items
choose_players(keypoints, player_dict) ==
    LET distances == sort_by_distance(distances_of(keypoints, player_dict))
    IN  <<distances[1][1], distances[2][1]>>

\* player_tracker.py:132 raises IndexError: distances[0] or distances[1] is missing
choose_players_index_error(player_dict) == Len(player_dict) < 2

\* filtered_player_dict that keeps the tracks that were not chosen
filtered_player_dict_complement(player_dict, chosen) ==
    SelectSeq(player_dict, LAMBDA item : ~(\E k \in 1..Len(chosen) : chosen[k] = item.track_id))

\* player_tracker.py:96: the items of the chosen tracks, in dict order
filtered_player_dict(player_dict, chosen) ==
    SelectSeq(player_dict, LAMBDA item : \E k \in 1..Len(chosen) : chosen[k] = item.track_id)

\* player_tracker.py:94-98
filter_players(detections, chosen) ==
    [f \in 1..Len(detections) |-> filtered_player_dict(detections[f], chosen)]

InitSelection ==
    /\ pc = "select"
    /\ error = "none"
    /\ all_player_detections \in DetectionLists
    /\ court_keypoints \in KeypointLists
    /\ chosen_player = <<>>
    /\ filtered_player_detections = <<>>
    /\ MainIdle /\ InterpolationIdle /\ ConversionIdle /\ PipelineIdle

\* player_tracker.py:92-98, the call that returns
ChooseAndFilterPlayers ==
    /\ pc = "select"
    /\ ~choose_players_index_error(all_player_detections[1])
    /\ chosen_player' = choose_players(court_keypoints, all_player_detections[1])
    /\ filtered_player_detections' = filter_players(all_player_detections, chosen_player')
    /\ pc' = "selected"
    /\ UNCHANGED <<error, all_player_detections, court_keypoints>>
    /\ UNCHANGED <<main_vars, interpolation_vars, conversion_vars, pipeline_vars>>

\* player_tracker.py:92-93 and 132, the call that raises IndexError
ChooseAndFilterPlayersIndexError ==
    /\ pc = "select"
    /\ choose_players_index_error(all_player_detections[1])
    /\ error' = "IndexError"
    /\ pc' = "failed"
    /\ UNCHANGED <<selection_vars, main_vars, interpolation_vars, conversion_vars, pipeline_vars>>

NextSelection ==
    \/ ChooseAndFilterPlayers
    \/ ChooseAndFilterPlayersIndexError

SpecSelection == InitSelection /\ [][NextSelection]_vars

\* the least squared distance from the integer centre of a box to a keypoint
CentreToCourt(bbox) ==
    LET cx == (bbox[1] + bbox[3]) \div 2
        cy == (bbox[2] + bbox[4]) \div 2
        d(i) == (cx - court_keypoints[2 * i + 1]) * (cx - court_keypoints[2 * i + 1])
                    + (cy - court_keypoints[2 * i + 2]) * (cy - court_keypoints[2 * i + 2])
    IN  CHOOSE m \in {d(i) : i \in 0..13} : \A i \in 0..13 : m <= d(i)

\* the first frame of the player detections
FirstFrame == all_player_detections[1]

C14_FilterKeepsChosenTracks ==
    pc = "selected" =>
        /\ Len(filtered_player_detections) = Len(all_player_detections)
        /\ \A f \in 1..Len(filtered_player_detections) :
               LET out == filtered_player_detections[f]
                   in == all_player_detections[f]
               IN  /\ Len(out) <= 2
                   /\ \A k \in 1..Len(out) :
                          /\ out[k].track_id \in {chosen_player[1], chosen_player[2]}
                          /\ \E a \in 1..Len(in) : in[a] = out[k]
                   /\ \A j, k \in 1..Len(out) : out[j].track_id = out[k].track_id => j = k
        /\ {filtered_player_detections[1][k].track_id
               : k \in 1..Len(filtered_player_detections[1])}
               = {chosen_player[1], chosen_player[2]}

\* a later frame had four tracks and keeps two, another later input frame
\* would keep one or none
C14_Witness ==
    /\ pc = "selected"
    /\ Len(all_player_detections) = 2
    /\ Len(FirstFrame) = 3
    /\ Len(all_player_detections[2]) > Len(filtered_player_detections[2])
    /\ Len(filtered_player_detections[2]) \in {1, 2}

(* C15: when the first frame holds fewer than two detected entities (zero  *)
(* or one), player selection fails with the dedicated                      *)
(* InsufficientDetections error and returns no selection.                  *)
C15_InsufficientDetectionsError ==
    (pc # "select" /\ Len(FirstFrame) < 2) =>
        /\ error = "InsufficientDetections"
        /\ chosen_player = <<>>

----------------------------------------------------------------------------
(* BallTracker.interpolate_ball_positions: ball_tracker.py:97-107          *)
(* The input holds per frame the box x.get(1, []) of line 97: four         *)
(* coordinates, or <<>> when the ball was not detected.  A cell of the     *)
(* DataFrame is NaN or the exact fraction num/den.                         *)

\* the most frames of a ball detection list
MaxBallFrames == 5

\* boxes the detector may give
DetectedBoxes == {<<0, 0, 2, 2>>, <<4, 4, 6, 6>>, <<10, 3, 13, 9>>}

\* the ball detection lists
BallDetectionLists == UNION {[1..n -> DetectedBoxes \cup {<<>>}] : n \in 0..MaxBallFrames}

CellNaN == [nan |-> TRUE, num |-> 0, den |-> 1]
CellOf(n, d) == [nan |-> FALSE, num |-> n, den |-> d]

\* ball_tracker.py:99: pd.DataFrame(ball_positions, columns=['x1','y1','x2','y2']);
\* a row shorter than the longest row is padded with NaN
data_frame(positions) ==
    [f \in 1..Len(positions) |->
        [c \in 1..4 |-> IF positions[f] = <<>> THEN CellNaN ELSE CellOf(positions[f][c], 1)]]

\* ball_tracker.py:99 raises ValueError (4 columns passed, passed data had 0
\* columns): there are rows and every row is empty
data_frame_value_error(positions) ==
    /\ Len(positions) > 0
    /\ \A f \in 1..Len(positions) : positions[f] = <<>>

\* the rows of column c that are not NaN
valid_cells(df, c) == {f \in 1..Len(df) : ~df[f][c].nan}

\* interpolate with limit_area='inside': only a NaN between two valid cells
\* is filled, a NaN below the last valid cell stays NaN
interpolate_inside(df) ==
    [f \in 1..Len(df) |->
        [c \in 1..4 |->
            LET above == {g \in valid_cells(df, c) : g < f}
                below == {g \in valid_cells(df, c) : g > f}
            IN  IF ~df[f][c].nan \/ above = {} \/ below = {} THEN df[f][c]
                ELSE LET lo == CHOOSE g \in above : \A h \in above : h <= g
                         hi == CHOOSE g \in below : \A h \in below : g <= h
                     IN  CellOf(df[lo][c].num * (hi - f) + df[hi][c].num * (f - lo),
                                hi - lo)]]

\* interpolate replaced by ffill: a NaN takes the last valid value above it
forward_filled(df) ==
    [f \in 1..Len(df) |->
        [c \in 1..4 |->
            LET above == {g \in valid_cells(df, c) : g < f}
            IN  IF ~df[f][c].nan \/ above = {} THEN df[f][c]
                ELSE df[CHOOSE g \in above : \A h \in above : h <= g][c]]]

\* ball_tracker.py:102: DataFrame.interpolate(), linear over equally spaced
\* rows, forward: a NaN between two valid cells is on the line through them,
\* a NaN below the last valid cell takes its value, a NaN above the first
\* valid cell stays NaN
interpolate(df) ==
    [f \in 1..Len(df) |->
        [c \in 1..4 |->
            LET above == {g \in valid_cells(df, c) : g < f}
                below == {g \in valid_cells(df, c) : g > f}
            IN  IF ~df[f][c].nan \/ above = {} THEN df[f][c]
                ELSE LET lo == CHOOSE g \in above : \A h \in above : h <= g
                     IN  IF below = {} THEN df[lo][c]
                         ELSE LET hi == CHOOSE g \in below : \A h \in below : g <= h
                              IN  CellOf(df[lo][c].num * (hi - f) + df[hi][c].num * (f - lo),
                                         hi - lo)]]

\* bfill left out
not_back_filled(df) == df

\* ball_tracker.py:103: DataFrame.bfill(): a NaN takes the first valid value
\* below it, and stays NaN when there is none
back_filled(df) ==
    [f \in 1..Len(df) |->
        [c \in 1..4 |->
            LET below == {g \in valid_cells(df, c) : g > f}
            IN  IF ~df[f][c].nan \/ below = {} THEN df[f][c]
                ELSE df[CHOOSE g \in below : \A h \in below : g <= h][c]]]

\* ball_tracker.py:97-107, when line 99 does not raise
interpolate_ball_positions(positions) == back_filled(interpolate(data_frame(positions)))

InitInterpolation ==
    /\ pc = "interpolate"
    /\ error = "none"
    /\ detected_ball_positions \in BallDetectionLists
    /\ interpolated_ball_positions = <<>>
    /\ MainIdle /\ SelectionIdle /\ ConversionIdle /\ PipelineIdle

\* ball_tracker.py:97-107, the call that returns
InterpolateBallPositions ==
    /\ pc = "interpolate"
    /\ ~data_frame_value_error(detected_ball_positions)
    /\ interpolated_ball_positions' = interpolate_ball_positions(detected_ball_positions)
    /\ pc' = "interpolated"
    /\ UNCHANGED <<error, detected_ball_positions>>
    /\ UNCHANGED <<main_vars, selection_vars, conversion_vars, pipeline_vars>>

\* ball_tracker.py:97-99, the call that raises ValueError
InterpolateBallPositionsValueError ==
    /\ pc = "interpolate"
    /\ data_frame_value_error(detected_ball_positions)
    /\ error' = "ValueError"
    /\ pc' = "failed"
    /\ UNCHANGED <<interpolation_vars, main_vars, selection_vars, conversion_vars, pipeline_vars>>

NextInterpolation ==
    \/ InterpolateBallPositions
    \/ InterpolateBallPositionsValueError

SpecInterpolation == InitInterpolation /\ [][NextInterpolation]_vars

\* the frames (numbered from 1) in which the ball was detected
DetectedFrames == {f \in 1..Len(detected_ball_positions) : detected_ball_positions[f] # <<>>}

\* the cell is not NaN and its value is n/d
CellIs(cell, n, d) == ~cell.nan /\ cell.num * d = n * cell.den

(* C17: for a ball sequence with at least one detection,                   *)
(* interpolate_ball_positions returns one populated four-coordinate box    *)
(* per input frame, and each coordinate of a missing frame between two     *)
(* detected frames is the linear interpolation, by frame index, between    *)
(* the nearest earlier and the nearest later detected value; [0,0,2,2],    *)
(* missing, [4,4,6,6] gives [2,2,4,4] for the middle frame.                *)
C17_LinearInterpolation ==
    (pc = "interpolated" /\ DetectedFrames # {}) =>
        /\ Len(interpolated_ball_positions) = Len(detected_ball_positions)
        /\ \A f \in 1..Len(interpolated_ball_positions) :
               /\ DOMAIN interpolated_ball_positions[f] = 1..4
               /\ \A c \in 1..4 : ~interpolated_ball_positions[f][c].nan
        /\ \A lo, hi \in DetectedFrames :
               (lo < hi /\ \A g \in (lo + 1)..(hi - 1) : g \notin DetectedFrames) =>
                   \A f \in (lo + 1)..(hi - 1) : \A c \in 1..4 :
                       \* a + (b - a) * (f - lo) / (hi - lo)
                       CellIs(interpolated_ball_positions[f][c],
                              detected_ball_positions[lo][c] * (hi - lo)
                                  + (detected_ball_positions[hi][c]
                                        - detected_ball_positions[lo][c]) * (f - lo),
                              hi - lo)
        /\ detected_ball_positions = <<<<0, 0, 2, 2>>, <<>>, <<4, 4, 6, 6>>>> =>
               /\ CellIs(interpolated_ball_positions[2][1], 2, 1)
               /\ CellIs(interpolated_ball_positions[2][2], 2, 1)
               /\ CellIs(interpolated_ball_positions[2][3], 4, 1)
               /\ CellIs(interpolated_ball_positions[2][4], 4, 1)

\* a gap of two frames between two different boxes: thirds on the line
C17_Witness ==
    /\ pc = "interpolated"
    /\ detected_ball_positions = <<<<0, 0, 2, 2>>, <<>>, <<>>, <<10, 3, 13, 9>>>>
    /\ CellIs(interpolated_ball_positions[2][1], 10, 3)
    /\ CellIs(interpolated_ball_positions[3][4], 20, 3)

(* C18: when the ball is missing in one or more frames at the start of the *)
(* sequence, interpolate_ball_positions gives each of those leading frames *)
(* the box of the first frame in which the ball was detected.              *)
C18_LeadingGapBackFilled ==
    (pc = "interpolated" /\ DetectedFrames # {}) =>
        LET first == CHOOSE f \in DetectedFrames : \A g \in DetectedFrames : f <= g
        IN  \A f \in 1..(first - 1) : \A c \in 1..4 :
                CellIs(interpolated_ball_positions[f][c], detected_ball_positions[first][c], 1)

\* two leading frames without the ball, then two different boxes
C18_Witness ==
    /\ pc = "interpolated"
    /\ detected_ball_positions = <<<<>>, <<>>, <<4, 4, 6, 6>>, <<0, 0, 2, 2>>>>
    /\ CellIs(interpolated_ball_positions[1][1], 4, 1)

(* C30: interpolate_ball_positions leaves the box of every frame in which  *)
(* the ball was detected unchanged, and gives every frame after the last   *)
(* detected frame the box of that last detected frame.                     *)
C30_DetectedKeptTrailingGapFilled ==
    (pc = "interpolated" /\ DetectedFrames # {}) =>
        LET last == CHOOSE f \in DetectedFrames : \A g \in DetectedFrames : g <= f
        IN  /\ \A f \in DetectedFrames : \A c \in 1..4 :
                   CellIs(interpolated_ball_positions[f][c], detected_ball_positions[f][c], 1)
            /\ \A f \in (last + 1)..Len(detected_ball_positions) : \A c \in 1..4 :
                   CellIs(interpolated_ball_positions[f][c], detected_ball_positions[last][c], 1)

\* two different boxes, then two trailing frames without the ball
C30_Witness ==
    /\ pc = "interpolated"
    /\ detected_ball_positions = <<<<0, 0, 2, 2>>, <<10, 3, 13, 9>>, <<>>, <<>>>>
    /\ CellIs(interpolated_ball_positions[4][1], 10, 1)
    /\ CellIs(interpolated_ball_positions[1][3], 2, 1)

(* C19: when the ball is detected in no frame of the sequence,             *)
(* interpolate_ball_positions fails with the dedicated NoBallDetections    *)
(* error instead of returning a sequence of undefined boxes.               *)
C19_NoBallDetectionsError ==
    (pc # "interpolate" /\ DetectedFrames = {}) =>
        /\ error = "NoBallDetections"
        /\ interpolated_ball_positions = <<>>

----------------------------------------------------------------------------------------------------------------------------------------
(* MiniCourt.__init__ and the methods that read the geometry:              *)
(* mini_court.py:56-84, 87-107, 109-210, 211-261, 263-336, 369-412.        *)
(* A coordinate on the mini court is a Python float and is kept in tenths  *)
(* of a pixel, rounded down after every operation of the code; lengths of  *)
(* the court are in millimeters, constants of the court in centimeters.    *)

\* frame.shape[:2] = <<height, width>> of the frame handed to
\* MiniCourt(frame); the canvas of the smallest one starts left of the frame
\* and ends below it
FrameShapes == {<<1080, FrameWidth>>, <<720, 1280>>, <<100, 200>>}

\* the values of constants.HALF_COURT_LINE_HEIGHT, DOUBLE_ALLY_DIFFERENCE,
\* NO_MANS_LAND_HEIGHT and SINGLE_LINE_WIDTH, in centimeters
CourtConstants ==
    { [HALF_COURT_LINE_HEIGHT |-> 1188, DOUBLE_ALLY_DIFFERENCE |-> 137,
       NO_MANS_LAND_HEIGHT |-> 548, SINGLE_LINE_WIDTH |-> 823],
      [HALF_COURT_LINE_HEIGHT |-> 1200, DOUBLE_ALLY_DIFFERENCE |-> 150,
       NO_MANS_LAND_HEIGHT |-> 500, SINGLE_LINE_WIDTH |-> 800] }

\* the values of constants.PLAYER_1_HEIGHT_METERS and PLAYER_2_HEIGHT_METERS, in centimeters
PlayerHeightsMeters == {188, 191}

\* int(x) of a float kept in tenths: the fraction is dropped, towards zero
int_of(tenths) == IF tenths >= 0 THEN (tenths \div 10) * 10 ELSE -(((-tenths) \div 10) * 10)

\* conversions.py:39: (meters * refrence_height_in_pixels) / refrence_height_in_meters;
\* millimeters times pixels over centimeters gives tenths of a pixel
convert_meters_to_pixel_distance(meters, refrence_height_in_meters, refrence_height_in_pixels) ==
    (meters * refrence_height_in_pixels) \div refrence_height_in_meters

\* mini_court.py:104-107
convert_meters_to_pixels(self, meters) ==
    convert_meters_to_pixel_distance(meters, DOUBLE_LINE_WIDTH, self.court_drawing_width)

\* mini_court.py:225-229, from the canvas <<start_x, start_y, end_x, end_y>>
set_mini_court_position(box) ==
    [court_start_x |-> box[1] + padding_court,
     court_start_y |-> box[2] + padding_court,
     court_end_x |-> box[3] - padding_court,
     court_end_y |-> box[4] - padding_court,
     court_drawing_width |-> (box[3] - padding_court) - (box[1] + padding_court)]

\* mini_court.py:133-177: the list of 28 coordinates, in tenths of a pixel;
\* entry i of the code is entry i+1 here
set_court_drawing_key_points(self, constants) ==
    LET c(centimeters) == convert_meters_to_pixels(self, centimeters * 10)
        p0 == <<int_of(self.court_start_x * 10), int_of(self.court_start_y * 10)>>
        p1 == <<int_of(self.court_end_x * 10), int_of(self.court_start_y * 10)>>
        p2 == <<int_of(self.court_start_x * 10),
                self.court_start_y * 10 + c(constants.HALF_COURT_LINE_HEIGHT * 2)>>
        p3 == <<p0[1] + self.court_drawing_width * 10, p2[2]>>
        p4 == <<p0[1] + c(constants.DOUBLE_ALLY_DIFFERENCE), p0[2]>>
        p5 == <<p2[1] + c(constants.DOUBLE_ALLY_DIFFERENCE), p2[2]>>
        p6 == <<p1[1] - c(constants.DOUBLE_ALLY_DIFFERENCE), p1[2]>>
        p7 == <<p3[1] - c(constants.DOUBLE_ALLY_DIFFERENCE), p3[2]>>
        p8 == <<p4[1], p4[2] + c(constants.NO_MANS_LAND_HEIGHT)>>
        p9 == <<p8[1] + c(constants.SINGLE_LINE_WIDTH), p8[2]>>
        p10 == <<p5[1], p5[2] - c(constants.NO_MANS_LAND_HEIGHT)>>
        p11 == <<p10[1] + c(constants.SINGLE_LINE_WIDTH), p10[2]>>
        p12 == <<int_of((p8[1] + p9[1]) \div 2), p8[2]>>
        p13 == <<int_of((p10[1] + p11[1]) \div 2), p10[2]>>
    IN  p0 \o p1 \o p2 \o p3 \o p4 \o p5 \o p6 \o p7 \o p8 \o p9 \o p10 \o p11 \o p12 \o p13

\* mini_court.py:198-209
set_court_lines ==
    <<<<0, 2>>, <<4, 5>>, <<6, 7>>, <<1, 3>>, <<0, 1>>, <<8, 9>>, <<10, 11>>, <<10, 11>>, <<2, 3>>>>

\* mini_court.py:76-84: the attributes of MiniCourt(frame) for a frame of
\* the shape `frame`; line 258 reads frame.shape[1]
MiniCourt(frame, constants) ==
    LET box == set_canvas_background_box_position(frame[2])
        court == set_mini_court_position(box)
    IN  [drawing_rectangle_width |-> drawing_rectangle_width,
         drawing_rectangle_height |-> drawing_rectangle_height,
         buffer |-> buffer,
         padding_court |-> padding_court,
         start_x |-> box[1], start_y |-> box[2], end_x |-> box[3], end_y |-> box[4],
         court_start_x |-> court.court_start_x, court_start_y |-> court.court_start_y,
         court_end_x |-> court.court_end_x, court_end_y |-> court.court_end_y,
         court_drawing_width |-> court.court_drawing_width,
         drawing_key_points |-> set_court_drawing_key_points(court, constants),
         lines |-> set_court_lines]

\* the MiniCourt objects of the model
MiniCourts == {MiniCourt(frame, k) : frame \in FrameShapes, k \in CourtConstants}

\* bbox_utils.py:142: (abs(p1[0]-p2[0]), abs(p1[1]-p2[1]))
measure_xy_distance(p1, p2) == <<Abs(p1[1] - p2[1]), Abs(p1[2] - p2[2])>>

\* the offset added to the first drawing keypoint instead of the anchor's
get_mini_court_coordinates_from_start(self, player_height_in_meters, object_position, closest_key_point, closest_key_point_index, player_height_in_pixels) ==
    LET distance == measure_xy_distance(object_position, closest_key_point)
        x_meters == convert_pixel_distance_to_meters(distance[1] * 10, player_height_in_meters,
                                                     player_height_in_pixels)
        y_meters == convert_pixel_distance_to_meters(distance[2] * 10, player_height_in_meters,
                                                     player_height_in_pixels)
    IN  <<self.drawing_key_points[1] + convert_meters_to_pixels(self, x_meters),
          self.drawing_key_points[2] + convert_meters_to_pixels(self, y_meters)>>

\* mini_court.py:389-412, the arguments named as in the signature of lines
\* 369-375; positions in pixels, heights in centimeters and pixels, the
\* result in tenths of a pixel
get_mini_court_coordinates(self, player_height_in_meters, object_position, closest_key_point, closest_key_point_index, player_height_in_pixels) ==
    LET distance == measure_xy_distance(object_position, closest_key_point)
        distance_from_keypoint_x_meters ==
            convert_pixel_distance_to_meters(distance[1] * 10, player_height_in_meters,
                                             player_height_in_pixels)
        distance_from_keypoint_y_meters ==
            convert_pixel_distance_to_meters(distance[2] * 10, player_height_in_meters,
                                             player_height_in_pixels)
        mini_court_x_distance_pixels == convert_meters_to_pixels(self, distance_from_keypoint_x_meters)
        mini_court_y_distance_pixels == convert_meters_to_pixels(self, distance_from_keypoint_y_meters)
        closest_mini_coourt_keypoint ==
            <<self.drawing_key_points[closest_key_point_index * 2 + 1],
              self.drawing_key_points[closest_key_point_index * 2 + 2]>>
    IN  <<closest_mini_coourt_keypoint[1] + mini_court_x_distance_pixels,
          closest_mini_coourt_keypoint[2] + mini_court_y_distance_pixels>>

\* mini_court.py:270-273: the centres of the circles, in pixels
court_circles(self) ==
    [k \in 0..13 |-> <<int_of(self.drawing_key_points[2 * k + 1]) \div 10,
                       int_of(self.drawing_key_points[2 * k + 2]) \div 10>>]

\* mini_court.py:281-284: the end points of the lines, in pixels
court_segments(self) ==
    [n \in 1..Len(self.lines) |->
        <<court_circles(self)[self.lines[n][1]], court_circles(self)[self.lines[n][2]]>>]

\* mini_court.py:286-288: the ordinate of the net, in pixels
court_net(self) ==
    int_of((self.drawing_key_points[2] + self.drawing_key_points[6]) \div 2) \div 10

\* the attributes after draw_court, were x = int(...) and y = int(...)
\* stored in the list they were read from
self_after_draw_court_truncating(self) ==
    [self EXCEPT !.drawing_key_points = [i \in 1..28 |-> int_of(@[i])]]

\* mini_court.py:270-292: the attributes after draw_court, which assigns
\* the locals x, y, start_point, end_point, net_start_point and
\* net_end_point and no attribute
self_after_draw_court(self) == self

\* mini_court.py:307-314 and 270-292: what draw_mini_court draws on a frame
draw_mini_court(self) ==
    [rectangle |-> <<self.start_x, self.start_y, self.end_x, self.end_y>>,
     circles |-> court_circles(self),
     segments |-> court_segments(self),
     net |-> court_net(self)]

----------------
(* MiniCourt.convert_bounding_boxes_to_mini_court_coordinates:             *)
(* mini_court.py:414-479, with get_mini_court_coordinates (369-412) up to  *)
(* its first statement.  A Python value passed to get_mini_court_          *)
(* coordinates is tagged as a tuple or as a number, since line 389         *)
(* subscripts two of the arguments.  Every pass of the loop of line 435    *)
(* raises in the frames the model draws (FirstPassRaises), so the machine  *)
(* has the call that returns for an empty frame list and the call that     *)
(* raises in its first pass.                                               *)

\* the most frames of the lists given to the conversion
MaxConversionFrames == 3

\* what a frame of player_boxes may hold: both players (in either dict
\* order), one of them, none, or two players with other track identities
PlayerBoxFrames ==
    { <<[track_id |-> 1, bbox |-> <<280, 100, 321, 200>>],
        [track_id |-> 2, bbox |-> <<580, 600, 621, 790>>]>>,
      <<[track_id |-> 2, bbox |-> <<585, 610, 625, 795>>],
        [track_id |-> 1, bbox |-> <<285, 105, 325, 215>>]>>,
      <<[track_id |-> 1, bbox |-> <<290, 110, 330, 205>>]>>,
      <<[track_id |-> 2, bbox |-> <<590, 605, 630, 800>>]>>,
      <<>>,
      <<[track_id |-> 7, bbox |-> <<280, 100, 321, 200>>],
        [track_id |-> 12, bbox |-> <<580, 600, 621, 790>>]>> }

\* the ball boxes of a frame, as interpolate_ball_positions returns them
BallBoxFrames == {<<300, 240, 310, 250>>, <<600, 500, 612, 512>>}

\* the most frames of a list that is longer than the window of heights
MaxWindowFrames == 52

\* a frame of a long list: both players, player 1 first; its box is 100
\* pixels high, and 150 in the frame `tall`
LongFrame(f, tall) ==
    <<[track_id |-> 1, bbox |-> <<280, 100, 321, IF f = tall THEN 250 ELSE 200>>],
      [track_id |-> 2, bbox |-> <<580, 600, 621, 790>>]>>

\* lists of 50 frames and more, with the tall box in the first frame, in one
\* of the last three frames, or in none
LongConversionInputs ==
    {[players |-> [f \in 1..n |-> LongFrame(f - 1, tall)],
      balls |-> [f \in 1..n |-> <<300, 240, 310, 250>>]]
        : n \in (MaxWindowFrames - 2)..MaxWindowFrames,
          tall \in {0, MaxWindowFrames - 3, MaxWindowFrames - 2, MaxWindowFrames - 1, MaxWindowFrames}}

\* the frame lists: as many ball boxes as player dicts
ConversionInputs ==
    UNION {[players : [1..n -> PlayerBoxFrames], balls : [1..n -> BallBoxFrames]]
           : n \in 0..MaxConversionFrames}
        \cup LongConversionInputs

PyTuple(t) == [tuple |-> t]
PyNumber(n) == [number |-> n]
\* v[0] raises TypeError unless v is a tuple or a list
subscriptable(v) == "tuple" \in DOMAIN v

\* bbox_utils.py:66: (int((x1 + x2) / 2), y2)
get_foot_position(bbox) == <<(bbox[1] + bbox[3]) \div 2, bbox[4]>>

\* bbox_utils.py:121
get_height_of_bbox(bbox) == bbox[4] - bbox[2]

RECURSIVE closest_keypoint_from(_, _, _, _, _)
\* bbox_utils.py:91-98: the loop from the k-th candidate on, with the best
\* candidate so far; a candidate replaces it when it is strictly nearer in y
closest_keypoint_from(point, keypoints, keypoint_indices, k, best) ==
    IF k > Len(keypoint_indices) THEN best
    ELSE LET distance(ind) == Abs(point[2] - keypoints[ind * 2 + 2])
         IN  closest_keypoint_from(point, keypoints, keypoint_indices, k + 1,
                 IF best = -1 \/ distance(keypoint_indices[k]) < distance(best)
                 THEN keypoint_indices[k] ELSE best)

\* the candidate nearest to the point in the plane, the earliest on a tie
get_closest_keypoint_index_nearest(point, keypoints, keypoint_indices) ==
    LET distance(k) ==
            (point[1] - keypoints[keypoint_indices[k] * 2 + 1])
                * (point[1] - keypoints[keypoint_indices[k] * 2 + 1])
            + (point[2] - keypoints[keypoint_indices[k] * 2 + 2])
                * (point[2] - keypoints[keypoint_indices[k] * 2 + 2])
        first == CHOOSE k \in 1..Len(keypoint_indices) :
                     \A j \in 1..Len(keypoint_indices) :
                         distance(k) < distance(j) \/ (distance(k) = distance(j) /\ k <= j)
    IN  keypoint_indices[first]

\* bbox_utils.py:89-100
get_closest_keypoint_index(point, keypoints, keypoint_indices) ==
    closest_keypoint_from(point, keypoints, keypoint_indices, 1, -1)

\* mini_court.py:445 and 466: the candidate keypoints
mapper_keypoint_indices == <<0, 2, 12, 13>>

\* bbox_utils.py:142: abs(p1[0]-p2[0]), abs(p1[1]-p2[1]) raises TypeError
measure_xy_distance_type_error(p1, p2) == ~subscriptable(p1) \/ ~subscriptable(p2)

\* mini_court.py:369-389: the first statement raises TypeError
get_mini_court_coordinates_type_error(player_height_in_meters, object_position, closest_key_point, closest_key_point_index, player_height_in_pixels) ==
    measure_xy_distance_type_error(object_position, closest_key_point)

\* mini_court.py:427-430: the keys of player_heights
player_heights_keys == {1, 2}

\* mini_court.py:450-452: range(max(0, frame_num-20), min(len(player_boxes), frame_num+50)),
\* frames numbered from 0
height_window(boxes, frame_num) ==
    Max2(0, frame_num - 20)..((IF Len(boxes) < frame_num + 50 THEN Len(boxes) ELSE frame_num + 50) - 1)

\* the box of a track in a dict
box_of(player_dict, id) ==
    player_dict[CHOOSE k \in 1..Len(player_dict) : player_dict[k].track_id = id].bbox

\* mini_court.py:452: the heights of the boxes of player_id in the window
bboxes_heights_in_pixels(boxes, frame_num, player_id) ==
    {get_height_of_bbox(box_of(boxes[i + 1], player_id)) : i \in height_window(boxes, frame_num)}

\* mini_court.py:453: max() of a list of heights
max_height(heights) == CHOOSE h \in heights : \A g \in heights : g <= h

\* mini_court.py:441-460 for one item of the frame's dict: the exception the
\* statements raise, in the order they run, or "none"
player_pass_error(boxes, keypoints, frame_num, item) ==
    IF \E i \in height_window(boxes, frame_num) : item.track_id \notin keys_of(boxes[i + 1])
    THEN "KeyError"                                    \* line 452
    ELSE IF item.track_id \notin player_heights_keys
    THEN "KeyError"                                    \* line 459
    ELSE LET foot_position == get_foot_position(item.bbox)
             closest_key_point_index ==
                 get_closest_keypoint_index(foot_position, keypoints, mapper_keypoint_indices)
             closest_key_point == <<keypoints[closest_key_point_index * 2 + 1],
                                    keypoints[closest_key_point_index * 2 + 2]>>
             max_height_in_pixels ==
                 max_height(bboxes_heights_in_pixels(boxes, frame_num, item.track_id))
         IN  \* lines 455-460: the five arguments in the order of the call
             IF get_mini_court_coordinates_type_error(
                    PyTuple(foot_position),
                    PyTuple(closest_key_point),
                    PyNumber(closest_key_point_index),
                    PyNumber(max_height_in_pixels),
                    PyNumber(<<"PLAYER_HEIGHT_METERS", item.track_id>>))
             THEN "TypeError"                          \* line 389
             ELSE "none"

\* mini_court.py:436-460: the exception the pass of frame frame_num raises
\* before its first player is converted, or "none"
frame_pass_error(boxes, keypoints, frame_num) ==
    IF boxes[frame_num + 1] = <<>> THEN "ValueError"  \* line 438, min() of no keys
    ELSE player_pass_error(boxes, keypoints, frame_num, boxes[frame_num + 1][1])

\* mini_court.py:436-438: min(player_bbox.keys(), key=...), the first key in
\* dict order among the keys of the least distance
closest_player_id_to_ball(player_dict, ball_box) ==
    LET ball_position == get_center_of_bbox(ball_box)
        distance(k) == measure_distance_squared(ball_position,
                                                get_center_of_bbox(player_dict[k].bbox))
        first == CHOOSE k \in 1..Len(player_dict) :
                     \A j \in 1..Len(player_dict) :
                         distance(k) < distance(j) \/ (distance(k) = distance(j) /\ k <= j)
    IN  player_dict[first].track_id

\* mini_court.py:436-438 and 462-475: the five arguments of the call that
\* projects the ball of frame frame_num, in the order of the call; the call
\* is in the pass of the player nearest to the ball and takes that
\* player's max_player_height_in_pixels and player_heights[player_id]
ball_projection_arguments(boxes, balls, keypoints, frame_num) ==
    LET ball_position == get_center_of_bbox(balls[frame_num + 1])
        player_id == closest_player_id_to_ball(boxes[frame_num + 1], balls[frame_num + 1])
        closest_key_point_index ==
            get_closest_keypoint_index(ball_position, keypoints, mapper_keypoint_indices)
        closest_key_point == <<keypoints[closest_key_point_index * 2 + 1],
                               keypoints[closest_key_point_index * 2 + 2]>>
    IN  <<ball_position,
          closest_key_point,
          closest_key_point_index,
          max_height(bboxes_heights_in_pixels(boxes, frame_num, player_id)),
          <<"PLAYER_HEIGHT_METERS", player_id>>>>

\* mini_court.py:436-453: the first pass of the loop of line 435 reaches the
\* assignment of line 453 for its first player
height_assigned(boxes) ==
    /\ boxes[1] # <<>>
    /\ \A i \in height_window(boxes, 0) : boxes[1][1].track_id \in keys_of(boxes[i + 1])

InitConversion ==
    /\ pc = "convert_boxes"
    /\ error = "none"
    /\ \E input \in ConversionInputs :
           /\ player_boxes = input.players
           /\ ball_boxes = input.balls
    /\ court_keypoints \in KeypointLists
    /\ output_player_boxes = <<>>
    /\ output_ball_boxes = <<>>
    /\ video_frames = <<>> /\ stages = <<>> /\ stdout = <<>>
    /\ mini_court \in {MiniCourt(<<1080, FrameWidth>>, k) : k \in CourtConstants}   \* main.py:57
    /\ mapper_call = [method |-> "none"]
    /\ max_player_height_in_pixels = 0
    /\ all_player_detections = <<>> /\ chosen_player = <<>> /\ filtered_player_detections = <<>>
    /\ MainIdle /\ InterpolationIdle

\* mini_court.py:427-479 for no frame: the loop has no pass
ConvertBoundingBoxesNoFrames ==
    /\ pc = "convert_boxes"
    /\ player_boxes = <<>>
    /\ output_player_boxes' = <<>>
    /\ output_ball_boxes' = <<>>
    /\ pc' = "converted"
    /\ UNCHANGED <<error, player_boxes, ball_boxes, mini_court, mapper_call,
                   max_player_height_in_pixels>>
    /\ UNCHANGED <<main_vars, selection_vars, interpolation_vars, pipeline_vars>>

\* mini_court.py:427-460: the first pass of the loop raises
ConvertBoundingBoxesRaises ==
    /\ pc = "convert_boxes"
    /\ player_boxes # <<>>
    /\ frame_pass_error(player_boxes, court_keypoints, 0) # "none"
    /\ error' = frame_pass_error(player_boxes, court_keypoints, 0)
    /\ max_player_height_in_pixels' =
           IF height_assigned(player_boxes)
           THEN max_height(bboxes_heights_in_pixels(player_boxes, 0, player_boxes[1][1].track_id))
           ELSE max_player_height_in_pixels
    /\ pc' = "failed"
    /\ UNCHANGED <<player_boxes, ball_boxes, output_player_boxes, output_ball_boxes,
                   mini_court, mapper_call>>
    /\ UNCHANGED <<main_vars, selection_vars, interpolation_vars, pipeline_vars>>

NextConversion ==
    \/ ConvertBoundingBoxesNoFrames
    \/ ConvertBoundingBoxesRaises

SpecConversion == InitConversion /\ [][NextConversion]_vars

\* the tracks of frame f (numbered from 0) of player_boxes
TracksAt(f) == {player_boxes[f + 1][k].track_id : k \in 1..Len(player_boxes[f + 1])}

(* C16: if a selected player identity is absent from the detections of     *)
(* some frame after the first, the pipeline does not fail: the coordinate  *)
(* mapping completes and has an output entry for every frame, with that    *)
(* player's entry missing in the affected frame.                           *)
C16_MissingPlayerAbsorbed ==
    ( /\ pc # "convert_boxes"
      /\ Len(player_boxes) >= 2
      /\ TracksAt(0) = {1, 2}
      /\ \E f \in 1..(Len(player_boxes) - 1) : TracksAt(f) # {1, 2} /\ TracksAt(f) \subseteq {1, 2} )
    => /\ error = "none"
       /\ Len(output_player_boxes) = Len(player_boxes)
       /\ Len(output_ball_boxes) = Len(player_boxes)

(* C20: for input in which both selected players and the interpolated ball *)
(* are present in every frame,                                             *)
(* convert_bounding_boxes_to_mini_court_coordinates completes without      *)
(* error and returns a player list and a ball list with exactly one entry  *)
(* per frame.                                                              *)
C20_ConversionCompletes ==
    ( /\ pc # "convert_boxes"
      /\ \A f \in 0..(Len(player_boxes) - 1) : TracksAt(f) = {1, 2} )
    => /\ error = "none"
       /\ Len(output_player_boxes) = Len(player_boxes)
       /\ Len(output_ball_boxes) = Len(player_boxes)

\* the height of the box of player p in frame i (numbered from 0) of player_boxes
BoxHeightAt(i, p) ==
    LET item == CHOOSE k \in 1..Len(player_boxes[i + 1]) : player_boxes[i + 1][k].track_id = p
    IN  player_boxes[i + 1][item].bbox[4] - player_boxes[i + 1][item].bbox[2]

(* C26: the reference pixel height used to project a player at frame f is  *)
(* the greatest box height of that player over the frames i with           *)
(* max(0, f-20) <= i <= min(last frame, f+50): frame f+50 is in the        *)
(* window when it exists.  The conversion computes the height of the first *)
(* player of frame 0 before it raises, so the property is stated for       *)
(* f = 0 and that player.                                                  *)
C26_WindowIncludesFramePlus50 ==
    (pc = "failed" /\ error = "TypeError") =>
        LET p == player_boxes[1][1].track_id
            last == Len(player_boxes) - 1
            window == 0..(IF last < 50 THEN last ELSE 50)
        IN  /\ \A i \in window : max_player_height_in_pixels >= BoxHeightAt(i, p)
            /\ \E i \in window : max_player_height_in_pixels = BoxHeightAt(i, p)

\* the frames that hold players 1 and 2
FramesOfBothPlayers == {q \in PlayerBoxFrames : {q[k].track_id : k \in 1..Len(q)} = {1, 2}}

(* C27: the scale that projects the ball comes from the ball alone: what   *)
(* the conversion hands to the projection of the ball of a frame is the    *)
(* same whichever boxes the two players have in that frame, so it depends  *)
(* neither on which player is nearest to the ball nor on that player's     *)
(* box height or real-world height.  Stated for frame 0 of the lists in    *)
(* which both players are in every frame.                                  *)
C27_BallScaleIndependentOfPlayers ==
    ( /\ pc = "convert_boxes"
      /\ player_boxes # <<>>
      /\ \A f \in 0..(Len(player_boxes) - 1) : TracksAt(f) = {1, 2} )
    => \A q \in FramesOfBothPlayers :
           ball_projection_arguments([player_boxes EXCEPT ![1] = q], ball_boxes, court_keypoints, 0)
               = ball_projection_arguments(player_boxes, ball_boxes, court_keypoints, 0)

\* every first pass of the loop raises: no list of one or more frames is converted
FirstPassRaises ==
    player_boxes # <<>> => frame_pass_error(player_boxes, court_keypoints, 0) # "none"

----------------------------------------------------------------------------
(* The MiniCourt object after MiniCourt(video_frames[0]) (main.py:57) and   *)
(* the calls of its methods: the projection get_mini_court_coordinates     *)
(* with arguments in the order of its signature, get_closest_keypoint_     *)
(* index of bbox_utils.py, draw_mini_court, and the conversion.            *)

\* the most frames of the lists that these runs convert
MaxMiniCourtFrames == 1

\* the frame lists that these runs convert; the ball does not move
MiniCourtConversionInputs ==
    UNION {[players : [1..n -> PlayerBoxFrames], balls : [1..n -> {<<300, 240, 310, 250>>}]]
           : n \in 0..MaxMiniCourtFrames}

\* keypoint lists for get_closest_keypoint_index: the court of KeypointLists,
\* whose candidates 0, 2, 12, 13 are at y = 200, 800, 350, 650, and a court
\* seen from the side, whose candidates 0 and 12 are at the same height
MapperKeypointLists ==
    KeypointLists \cup
    {<<300, 240, 900, 200, 200, 830, 1000, 800, 370, 200, 290, 800, 830, 200,
       910, 800, 350, 350, 850, 350, 320, 650, 880, 650, 600, 240, 600, 640>>}

\* candidate lists: the list of the mapper and the same candidates reversed
CandidateLists == {mapper_keypoint_indices, <<13, 12, 2, 0>>}

\* points given to get_closest_keypoint_index: on a candidate's height,
\* half way between two candidates, above and below all of them
QueryPoints == {<<x, y>> : x \in {0, 600, 1900}, y \in {150, 200, 275, 350, 500, 725, 800, 900}}

\* where the projected object is, from its anchor keypoint, in pixels
ProjectionOffsets == {<<0, 0>>, <<-10, 0>>, <<10, 0>>, <<0, -7>>, <<0, 7>>, <<-30, 25>>}

\* the heights in pixels given to the projection
ReferencePixelHeights == {100, 150}

InitMiniCourt ==
    /\ pc = "convert_boxes"
    /\ error = "none"
    /\ video_frames \in {<<frame>> : frame \in FrameShapes}
    /\ \E k \in CourtConstants : mini_court = MiniCourt(video_frames[1], k)   \* main.py:57
    /\ \E input \in MiniCourtConversionInputs :
           /\ player_boxes = input.players
           /\ ball_boxes = input.balls
    /\ court_keypoints \in KeypointLists
    /\ output_player_boxes = <<>>
    /\ output_ball_boxes = <<>>
    /\ mapper_call = [method |-> "none"]
    /\ max_player_height_in_pixels = 0
    /\ stages = <<>> /\ stdout = <<>>
    /\ all_player_detections = <<>> /\ chosen_player = <<>> /\ filtered_player_detections = <<>>
    /\ MainIdle /\ InterpolationIdle

\* mini_court.py:369-412: a call with the arguments its signature names;
\* a run makes one call of a method that takes arguments
GetMiniCourtCoordinates ==
    /\ pc = "convert_boxes"
    /\ mapper_call.method = "none"
    /\ \E index \in 0..13, offset \in ProjectionOffsets,
          height_in_pixels \in ReferencePixelHeights, height_in_meters \in PlayerHeightsMeters :
           LET key_point == court_keypoint(court_keypoints, index)
               position == <<key_point[1] + offset[1], key_point[2] + offset[2]>>
           IN  mapper_call' =
                   [method |-> "get_mini_court_coordinates",
                    player_height_in_meters |-> height_in_meters,
                    object_position |-> position,
                    closest_key_point |-> key_point,
                    closest_key_point_index |-> index,
                    player_height_in_pixels |-> height_in_pixels,
                    result |-> get_mini_court_coordinates(mini_court, height_in_meters, position,
                                                          key_point, index, height_in_pixels)]
    /\ UNCHANGED <<pc, error, court_keypoints, player_boxes, ball_boxes, output_player_boxes,
                   output_ball_boxes, mini_court, max_player_height_in_pixels>>
    /\ UNCHANGED <<all_player_detections, chosen_player, filtered_player_detections>>
    /\ UNCHANGED <<main_vars, interpolation_vars, pipeline_vars>>

\* bbox_utils.py:67-100: a call
GetClosestKeypointIndex ==
    /\ pc = "convert_boxes"
    /\ mapper_call.method = "none"
    /\ \E point \in QueryPoints, keypoints \in MapperKeypointLists, indices \in CandidateLists :
           mapper_call' =
               [method |-> "get_closest_keypoint_index",
                point |-> point,
                keypoints |-> keypoints,
                keypoint_indices |-> indices,
                result |-> get_closest_keypoint_index(point, keypoints, indices)]
    /\ UNCHANGED <<pc, error, court_keypoints, player_boxes, ball_boxes, output_player_boxes,
                   output_ball_boxes, mini_court, max_player_height_in_pixels>>
    /\ UNCHANGED <<all_player_detections, chosen_player, filtered_player_detections>>
    /\ UNCHANGED <<main_vars, interpolation_vars, pipeline_vars>>

\* mini_court.py:316-336: draw_mini_court on frames of the shape of the
\* first one; what is drawn is the same on every frame
DrawMiniCourt ==
    /\ pc = "convert_boxes"
    /\ mapper_call' = [method |-> "draw_mini_court", result |-> draw_mini_court(mini_court)]
    /\ mini_court' = self_after_draw_court(mini_court)
    /\ UNCHANGED <<pc, error, court_keypoints, player_boxes, ball_boxes, output_player_boxes,
                   output_ball_boxes, max_player_height_in_pixels>>
    /\ UNCHANGED <<all_player_detections, chosen_player, filtered_player_detections>>
    /\ UNCHANGED <<main_vars, interpolation_vars, pipeline_vars>>

NextMiniCourt ==
    \/ GetMiniCourtCoordinates
    \/ GetClosestKeypointIndex
    \/ DrawMiniCourt
    \/ ConvertBoundingBoxesNoFrames
    \/ ConvertBoundingBoxesRaises

SpecMiniCourt == InitMiniCourt /\ [][NextMiniCourt]_vars

\* the mini-court position of drawing keypoint i (numbered from 0), in tenths of a pixel
DrawingKeypoint(i) ==
    <<mini_court.drawing_key_points[2 * i + 1], mini_court.drawing_key_points[2 * i + 2]>>

(* C21: for an object at the original-frame position of its anchor         *)
(* keypoint, the projection returns the mini-court position of that        *)
(* keypoint, for every anchor index and every positive reference height.   *)
C21_AnchorProjectsToItself ==
    ( /\ mapper_call.method = "get_mini_court_coordinates"
      /\ mapper_call.object_position = mapper_call.closest_key_point )
    => mapper_call.result = DrawingKeypoint(mapper_call.closest_key_point_index)

\* the object at keypoint 13, a service-line midpoint, whose mini-court
\* abscissa is not that of the first keypoint
C21_Witness ==
    /\ mapper_call.method = "get_mini_court_coordinates"
    /\ mapper_call.object_position = mapper_call.closest_key_point
    /\ mapper_call.closest_key_point_index = 13
    /\ mapper_call.player_height_in_pixels = 150
    /\ DrawingKeypoint(13) # DrawingKeypoint(0)

(* C22: the projection uses the signed offset from the anchor keypoint: an *)
(* object left of (above) its anchor in the original frame is mapped left  *)
(* of (above) the anchor's mini-court position, an object right of (below) *)
(* it is mapped right of (below) it.                                       *)
C22_SignedOffset ==
    mapper_call.method = "get_mini_court_coordinates" =>
        LET anchor == DrawingKeypoint(mapper_call.closest_key_point_index)
            object == mapper_call.object_position
            key_point == mapper_call.closest_key_point
        IN  /\ object[1] < key_point[1] => mapper_call.result[1] < anchor[1]
            /\ object[1] > key_point[1] => mapper_call.result[1] > anchor[1]
            /\ object[2] < key_point[2] => mapper_call.result[2] < anchor[2]
            /\ object[2] > key_point[2] => mapper_call.result[2] > anchor[2]

(* C23: for every frame size the canvas is 250 by 500 pixels, its right    *)
(* edge is 50 pixels left of the frame's right edge, its top edge is at    *)
(* y = 50 whatever the frame height, and the drawing width of the mini     *)
(* court is 210 pixels.                                                    *)
C23_CanvasPlacement ==
    mini_court # <<>> =>
        /\ mini_court.end_x - mini_court.start_x = 250
        /\ mini_court.end_y - mini_court.start_y = 500
        /\ video_frames[1][2] - mini_court.end_x = 50
        /\ mini_court.start_y = 50
        /\ mini_court.court_drawing_width = 210

\* a frame smaller than the canvas: the canvas starts left of the frame and
\* ends below it
C23_Witness ==
    /\ video_frames = <<<<100, 200>>>>
    /\ mini_court.start_x = -100
    /\ mini_court.end_y = 550

(* C24: once the MiniCourt is constructed, no call (conversion,            *)
(* projection, keypoint search, drawing) changes its geometry (canvas,     *)
(* drawing width, drawing keypoints, lines), and no call changes the       *)
(* player boxes, ball boxes or court keypoints given to the conversion.    *)
C24_GeometryAndInputsKept ==
    [][ /\ mini_court' = mini_court
        /\ player_boxes' = player_boxes
        /\ ball_boxes' = ball_boxes
        /\ court_keypoints' = court_keypoints ]_vars

\* the court was drawn and a list of one frame was given to the conversion
C24_Witness ==
    /\ mapper_call.method = "draw_mini_court"
    /\ pc = "failed"
    /\ Len(player_boxes) = 1

(* C28: get_closest_keypoint_index returns a member of the candidate list  *)
(* whose y coordinate is nearest to the point's y coordinate, the earliest *)
(* such candidate in list order; the point's x coordinate plays no part.   *)
C28_ClosestKeypointByHeight ==
    mapper_call.method = "get_closest_keypoint_index" =>
        LET candidates == mapper_call.keypoint_indices
            height_gap(i) == Abs(mapper_call.point[2] - mapper_call.keypoints[2 * i + 2])
        IN  \E k \in 1..Len(candidates) :
                /\ mapper_call.result = candidates[k]
                /\ \A j \in 1..Len(candidates) : height_gap(candidates[k]) <= height_gap(candidates[j])
                /\ \A j \in 1..(k - 1) : height_gap(candidates[j]) > height_gap(candidates[k])

\* a point half way between candidates 2 and 13 and far to the right of
\* both: the reversed list gives 13
C28_Witness ==
    /\ mapper_call.method = "get_closest_keypoint_index"
    /\ mapper_call.point = <<1900, 725>>
    /\ mapper_call.keypoints \in KeypointLists
    /\ mapper_call.keypoint_indices = <<13, 12, 2, 0>>
    /\ mapper_call.result = 13

----------------------------------------------------------------------------
(* main() from the frames read (main.py:20) to the coordinate conversion   *)
(* (main.py:63), call by call.  The detections are read from stub files    *)
(* (read_from_stub=True), so what a call returns or raises does not follow *)
(* from video_frames and is chosen among the outcomes of the call; the     *)
(* conversion raises for every list it is given here (FirstPassRaises),    *)
(* so no run goes past line 63.                                            *)

\* the most frames of the video
MaxVideoFrames == 4

\* the videos: a number of frames of one shape
Videos == {[f \in 1..n |-> frame] : n \in 0..MaxVideoFrames, frame \in FrameShapes}

\* the test never true: main() goes on with no frame
video_frames_empty_never(frames) == FALSE

\* main.py:23: not video_frames
video_frames_empty(frames) == Len(frames) = 0

InitPipeline ==
    /\ pc = "frames_read"
    /\ error = "none"
    /\ video_frames \in Videos
    /\ stages = <<>>
    /\ stdout = <<>>
    /\ MainIdle /\ SelectionIdle /\ InterpolationIdle /\ ConversionIdle

\* a call at position `at` of main() that returns: main() goes on at `next`
Returns(at, call, next) ==
    /\ pc = at
    /\ stages' = Append(stages, call)
    /\ pc' = next
    /\ UNCHANGED <<error, video_frames, stdout>>
    /\ UNCHANGED <<main_vars, selection_vars, interpolation_vars, conversion_vars>>

\* a call at position `at` of main() that raises: main() ends with the exception
Raises(at, call, exception) ==
    /\ pc = at
    /\ stages' = Append(stages, call)
    /\ error' = exception
    /\ pc' = "failed"
    /\ UNCHANGED <<video_frames, stdout>>
    /\ UNCHANGED <<main_vars, selection_vars, interpolation_vars, conversion_vars>>

\* main.py:23-25: the message is printed and main() returns
ReturnOnEmptyVideo ==
    /\ pc = "frames_read"
    /\ video_frames_empty(video_frames)
    /\ stdout' = Append(stdout, "Error: video_frames is empty.")
    /\ pc' = "returned"
    /\ UNCHANGED <<error, video_frames, stages>>
    /\ UNCHANGED <<main_vars, selection_vars, interpolation_vars, conversion_vars>>

\* main.py:28-29
ConstructTrackers ==
    /\ ~video_frames_empty(video_frames)
    /\ Returns("frames_read", "PlayerTracker, BallTracker", "detect_frames")

\* main.py:34-40
DetectFrames == Returns("detect_frames", "detect_frames", "interpolate_ball_positions")

\* main.py:43: returns, or raises ValueError when the stub has no ball box
InterpolateStubDetections ==
    \/ Returns("interpolate_ball_positions", "interpolate_ball_positions", "predict")
    \/ Raises("interpolate_ball_positions", "interpolate_ball_positions", "ValueError")

\* main.py:47-50: video_frames[0] raises IndexError when there is no frame
PredictCourtKeypoints ==
    IF video_frames = <<>>
    THEN Raises("predict", "CourtLineDetector", "IndexError")
    ELSE Returns("predict", "CourtLineDetector.predict", "choose_and_filter_players")

\* main.py:54: returns, or raises IndexError when the first frame of the
\* stub has fewer than two entities
ChooseStubPlayers ==
    \/ Returns("choose_and_filter_players", "choose_and_filter_players", "MiniCourt")
    \/ Raises("choose_and_filter_players", "choose_and_filter_players", "IndexError")

\* main.py:57
ConstructMiniCourt == Returns("MiniCourt", "MiniCourt", "get_ball_shot_frames")

\* main.py:60
GetBallShotFrames ==
    Returns("get_ball_shot_frames", "get_ball_shot_frames",
            "convert_bounding_boxes_to_mini_court_coordinates")

\* main.py:63: the exceptions of frame_pass_error
ConvertStubDetections ==
    \E exception \in {"TypeError", "KeyError", "ValueError"} :
        Raises("convert_bounding_boxes_to_mini_court_coordinates",
               "convert_bounding_boxes_to_mini_court_coordinates", exception)

NextPipeline ==
    \/ ReturnOnEmptyVideo
    \/ ConstructTrackers
    \/ DetectFrames
    \/ InterpolateStubDetections
    \/ PredictCourtKeypoints
    \/ ChooseStubPlayers
    \/ ConstructMiniCourt
    \/ GetBallShotFrames
    \/ ConvertStubDetections

SpecPipeline == InitPipeline /\ [][NextPipeline]_vars

(* C25: when zero frames are supplied, main() stops with the empty-video   *)
(* error before any stage (detection, interpolation, keypoint prediction,  *)
(* player selection, shot detection, mapping, aggregation, output) runs,   *)
(* and produces no output.                                                 *)
C25_EmptyVideoStopsFirst ==
    (video_frames = <<>> /\ pc # "frames_read") =>
        /\ pc = "returned"
        /\ stdout = <<"Error: video_frames is empty.">>
        /\ stages = <<>>

\* the run with no frame has ended
C25_Witness == video_frames = <<>> /\ pc = "returned" /\ stdout # <<>>

\* only the empty video stops before the first stage
OnlyEmptyVideoReturns == pc = "returned" => video_frames = <<>>
====
